---- MODULE Spec2Model ----
(***************************************************************************)
(* Model of the flight filter/sort hook (src/hooks/useFlightFilters.ts).   *)
(*                                                                         *)
(* State: the `flights` prop handed to the hook, the hook's `filters`      *)
(* state and its `sortOption` state.  Every memoized value of the hook     *)
(* (globalPriceRange, filteredFlights, priceStats, priceGraphData,         *)
(* hasActiveFilters) is an operator over that state.  Spec feeds the hook   *)
(* with short offer lists, LargeSpec with lists longer than the price      *)
(* graph has buckets.                                                      *)
(*                                                                         *)
(* The hook's filteredFlights is the `flights` prop of the FlightList      *)
(* component (components/results/FlightList.tsx), whose state is `page`,   *)
(* `rowsPerPage` and `tableFilters`; ListSpec adds the component's         *)
(* handlers.  `seatmap` is the seat map handed to the normalization of     *)
(* hooks/useSeatmap.ts; SeatSpec feeds it.  PriceSpec is the price range   *)
(* filter (components/filters/PriceRangeFilter.tsx) over the hook, with    *)
(* the timers of useDebouncedCallback (hooks/useOptimizations.ts).         *)
(* ModalSpec is the modal state of the flight context                      *)
(* (contexts/FlightContext.tsx) with the timers of closeModal, ClientSpec  *)
(* the API client (api/amadeus.client.ts) with its token cache and the     *)
(* requests in flight.                                                     *)
(*                                                                         *)
(* Representation                                                          *)
(*  - strings the code parses (grandTotal, duration, departure.at) are     *)
(*    sequences of one-character strings and are parsed as the code        *)
(*    parses them;                                                         *)
(*  - JavaScript numbers that carry prices are held exactly, in            *)
(*    hundredths of a currency unit (parseFloat("300.50") is 30050);       *)
(*  - NaN is a distinguished integer no computation of the model yields.   *)
(***************************************************************************)
EXTENDS Integers, Sequences, FiniteSets, TLC

VARIABLES flights, filters, sortOption, page, rowsPerPage, tableFilters,
          seatmap, selectedSeat,
          localValue, timeoutRef, timers, timerIds, ran, lastCall, lastAction,
          isModalOpen, selectedFlight, clearTimers, lastOpened,
          tokenCache, tokensIssued, requests

\* the state of the filter hook, of the flight list and of the seat map view
hookVars == <<flights, filters, sortOption>>
listVars == <<page, rowsPerPage, tableFilters>>
seatVars == <<seatmap, selectedSeat>>
\* the state of the price range filter with its debounced callback: the
\* component's localValue, the hook's timeoutRef, the timers of the
\* runtime and the number of timers set so far; and, kept beside them, the
\* timer whose callback ran last, the last call of the debounced function
\* and the last user action on the price range
priceVars == <<localValue, timeoutRef, timers, timerIds, ran, lastCall,
               lastAction>>

\* the state of the flight context's modal: its isModalOpen and
\* selectedFlight, the pending timers of closeModal and, kept beside them,
\* the flight of the last openModal
modalVars == <<isModalOpen, selectedFlight, clearTimers, lastOpened>>
\* the state of the API client: the token cache, the number of tokens the
\* auth endpoint has issued and the requests made through the client
clientVars == <<tokenCache, tokensIssued, requests>>

\* what a step of the hook or of the flight list leaves alone, and what a
\* step of the seat map view, of the price range filter, of the modal and
\* of the API client leaves alone
besidesResults == <<seatVars, priceVars, modalVars, clientVars>>
besidesSeatmap == <<hookVars, listVars, priceVars, modalVars, clientVars>>
besidesPrice == <<seatVars, modalVars, clientVars>>
besidesModal == <<hookVars, listVars, seatVars, priceVars, clientVars>>
besidesClient == <<hookVars, listVars, seatVars, priceVars, modalVars>>

vars == <<flights, filters, sortOption, page, rowsPerPage, tableFilters,
          seatmap, selectedSeat,
          localValue, timeoutRef, timers, timerIds, ran, lastCall, lastAction,
          isModalOpen, selectedFlight, clearTimers, lastOpened,
          tokenCache, tokensIssued, requests>>

-----------------------------------------------------------------------------
(* Bounds *)

\* longest offer list a search response delivers
MaxFlights == 3
\* longest offer list of a large search response
MaxLargeResponse == 11
\* longest short offer list handed to the flight list
MaxListed == 2
\* most seats of a seat map
MaxSeats == 2
\* most timers the debounced callback sets
MaxTimers == 2
\* most timers of closeModal pending at a time
MaxClearTimers == 2
\* most requests made through the API client
MaxRequests == 2
\* most tokens the auth endpoint issues
MaxTokens == 3

-----------------------------------------------------------------------------
(* JavaScript values *)

\* Number.POSITIVE_INFINITY, above every price of the model
Infinity == 99999999
\* the not-a-number value (the time of an invalid Date)
NaN == 0 - Infinity
\* null, the absent duration ceiling
null == 0 - 1

Min(S) == CHOOSE x \in S : \A y \in S : x <= y
Max(S) == CHOOSE x \in S : \A y \in S : x >= y

Range(s) == {s[i] : i \in 1..Len(s)}

DigitChars == <<"0", "1", "2", "3", "4", "5", "6", "7", "8", "9">>
IsDigit(c) == \E i \in 1..10 : DigitChars[i] = c
DigitVal(c) == (CHOOSE i \in 1..10 : DigitChars[i] = c) - 1

\* value of a run of decimal digits (the empty run is 0)
RECURSIVE ParseDigits(_)
ParseDigits(s) ==
  IF s = <<>> THEN 0
  ELSE 10 * ParseDigits(SubSeq(s, 1, Len(s) - 1)) + DigitVal(s[Len(s)])

\* length of the run of digits of s that starts at position i
RECURSIVE DigitRun(_, _)
DigitRun(s, i) ==
  IF i <= Len(s) /\ IsDigit(s[i]) THEN 1 + DigitRun(s, i + 1) ELSE 0

\* parseFloat of a decimal string: integer digits, optionally "." and
\* fraction digits; the result in hundredths (digits beyond the second
\* fraction digit do not occur in prices and are cut)
ParseFloat(s) ==
  LET n == DigitRun(s, 1)
      hasFrac == n + 1 <= Len(s) /\ s[n + 1] = "."
      f == IF hasFrac THEN DigitRun(s, n + 2) ELSE 0
      whole == ParseDigits(SubSeq(s, 1, n))
      frac == IF f = 0 THEN 0
              ELSE IF f = 1 THEN 10 * DigitVal(s[n + 2])
              ELSE ParseDigits(SubSeq(s, n + 2, n + 3))
  IN IF n = 0 /\ f = 0 THEN NaN ELSE 100 * whole + frac

\* Math.floor / Math.ceil of a non-negative number held in hundredths
MathFloor(x) == (x \div 100) * 100
MathCeil(x) == ((x + 99) \div 100) * 100

-----------------------------------------------------------------------------
(* Flight offers (types/flight.types.ts) *)

StopFilter == {"non-stop", "1-stop", "2+-stops"}
SortOption == {"price-asc", "price-desc", "duration-asc", "departure-asc"}

\* every segment of the model flies the searched route
Segment(stops, at) ==
  [numberOfStops |-> stops,
   departure |-> [iataCode |-> <<"J", "F", "K">>, at |-> at],
   arrival |-> [iataCode |-> <<"L", "H", "R">>]]
Itinerary(duration, segments) == [duration |-> duration, segments |-> segments]
Offer(id, grandTotal, codes, itineraries) ==
  [id |-> id, price |-> [grandTotal |-> grandTotal],
   validatingAirlineCodes |-> codes, itineraries |-> itineraries]

\* "2024-03-0dThh:mm:00"
At(d, h1, h2, m1, m2) ==
  <<"2", "0", "2", "4", "-", "0", "3", "-", "0", d, "T", h1, h2, ":", m1, m2,
    ":", "0", "0">>

\* The offers a search response is drawn from.  Between them they have
\* equal and fractional prices, stop sums 0, 1 and 2 made of connections,
\* of own stops and of two itineraries, equal durations written in two
\* ways, equal departures, one and two airline codes, and one offer
\* without any itinerary.
OfferA ==
  Offer("A", <<"5", "0", "0">>, <<"AA">>,
        <<Itinerary(<<"P", "T", "2", "H">>,
                    <<Segment(0, At("1", "1", "0", "0", "0"))>>)>>)
OfferB ==
  Offer("B", <<"3", "0", "0">>, <<"BA">>,
        <<Itinerary(<<"P", "T", "5", "H", "3", "0", "M">>,
                    <<Segment(0, At("1", "0", "8", "0", "0")),
                      Segment(0, At("1", "1", "1", "3", "0"))>>)>>)
OfferD ==
  Offer("D", <<"3", "0", "0">>, <<"BA">>,
        <<Itinerary(<<"P", "T", "1", "2", "0", "M">>,
                    <<Segment(0, At("1", "1", "0", "0", "0")),
                      Segment(0, At("1", "1", "1", "0", "0"))>>),
          Itinerary(<<"P", "T", "3", "H">>,
                    <<Segment(1, At("5", "1", "0", "0", "0"))>>)>>)
OfferE ==
  Offer("E", <<"1", "2", "0", ".", "7", "5">>, <<"BA", "AA">>, <<>>)

Offers == {OfferA, OfferB, OfferD, OfferE}
AirlineCodes == UNION {Range(o.validatingAirlineCodes) : o \in Offers}

\* lists of at most n distinct offers
OfferLists(n) ==
  {l \in UNION {[1..k -> Offers] : k \in 0..n} :
     \A i, j \in 1..Len(l) : i # j => l[i].id # l[j].id}

\* the decimal digits of a natural number
RECURSIVE Digits(_)
Digits(n) ==
  IF n < 10 THEN <<DigitChars[n + 1]>>
  ELSE Digits(n \div 10) \o <<DigitChars[(n % 10) + 1]>>

\* The k-th offer of a large response: a direct flight whose price follows
\* one of three patterns, evenly spread prices, two prices in turn, and
\* prices with a fraction.
PricePatterns == {"spread", "two-prices", "fraction"}
LargeOffer(k, pattern) ==
  Offer(ToString(k),
        IF pattern = "spread" THEN Digits(100 + 40 * k)
        ELSE IF pattern = "two-prices"
          THEN Digits(IF k % 2 = 1 THEN 300 ELSE 500)
        ELSE Digits(45 * k) \o <<".", "5", "0">>,
        IF k % 3 = 0 THEN <<"BA">> ELSE <<"AA">>,
        <<Itinerary(<<"P", "T">> \o Digits(k) \o <<"H">>,
                    <<Segment(0, At("1", "1", "0", "0", "0"))>>)>>)

\* large responses: two fewer offers than MaxLargeResponse, up to it
LargeOfferLists ==
  {[k \in 1..n |-> LargeOffer(k, pattern)] :
     n \in (MaxLargeResponse - 2)..MaxLargeResponse,
     pattern \in PricePatterns}

-----------------------------------------------------------------------------
(* Helper functions, useFlightFilters.ts 68-95 *)

\* the sum of a sequence of numbers
RECURSIVE SeqSum(_)
SeqSum(s) == IF s = <<>> THEN 0 ELSE s[1] + SeqSum(Tail(s))

Sum(f, S) == LET RECURSIVE sum(_)
                 sum(T) == IF T = {} THEN 0
                           ELSE LET x == CHOOSE x \in T : TRUE
                                IN f[x] + sum(T \ {x})
             IN sum(S)

\* variant: only the first itinerary is counted
getFlightStops_firstItinerary(flight) ==
  IF flight.itineraries = <<>> THEN 0
  ELSE LET it == flight.itineraries[1]
       IN Sum([k \in 1..Len(it.segments) |-> it.segments[k].numberOfStops],
              1..Len(it.segments)) + Max({0, Len(it.segments) - 1})

getFlightStops(flight) ==
  LET its == flight.itineraries
      segmentStops(it) ==
        Sum([k \in 1..Len(it.segments) |-> it.segments[k].numberOfStops],
            1..Len(it.segments))
      connections(it) == Max({0, Len(it.segments) - 1})
  IN Sum([i \in 1..Len(its) |-> segmentStops(its[i]) + connections(its[i])],
         1..Len(its))

getFlightPrice(flight) == ParseFloat(flight.price.grandTotal)

\* duration.match(/PT(?:(\d+)H)?(?:(\d+)M)?/): the capture groups <<hours,
\* minutes>> as digit runs, empty when the group did not take part or when
\* there is no match at all
DurationMatch(s) ==
  LET starts == {i \in 1..Len(s) - 1 : s[i] = "P" /\ s[i + 1] = "T"}
  IN IF starts = {} THEN <<<<>>, <<>>>>
     ELSE LET p == Min(starts) + 2
              n1 == DigitRun(s, p)
              hasH == n1 > 0 /\ p + n1 <= Len(s) /\ s[p + n1] = "H"
              q == IF hasH THEN p + n1 + 1 ELSE p
              n2 == DigitRun(s, q)
              hasM == n2 > 0 /\ q + n2 <= Len(s) /\ s[q + n2] = "M"
          IN <<IF hasH THEN SubSeq(s, p, p + n1 - 1) ELSE <<>>,
               IF hasM THEN SubSeq(s, q, q + n2 - 1) ELSE <<>>>>

getFlightDuration(flight) ==
  LET duration == IF flight.itineraries = <<>>
                     \/ flight.itineraries[1].duration = <<>>
                  THEN <<"P", "T", "0", "H", "0", "M">>
                  ELSE flight.itineraries[1].duration
      matches == DurationMatch(duration)
      hours == ParseDigits(IF matches[1] = <<>> THEN <<"0">> ELSE matches[1])
      minutes == ParseDigits(IF matches[2] = <<>> THEN <<"0">> ELSE matches[2])
  IN hours * 60 + minutes

\* new Date("YYYY-MM-DDThh:mm:ss").getTime(), in seconds and with every
\* month counted as 31 days: a number that orders valid timestamps as the
\* epoch milliseconds do
DateGetTime(at) ==
  LET field(a, b) == ParseDigits(SubSeq(at, a, b))
  IN (((((field(1, 4) - 1970) * 12 + field(6, 7)) * 31 + field(9, 10)) * 24
       + field(12, 13)) * 60 + field(15, 16)) * 60 + field(18, 19)

\* getDepartureTime(flight).getTime(); the optional chain gives undefined
\* for an offer without itinerary or first segment, and the Date is invalid
getDepartureTime(flight) ==
  IF flight.itineraries = <<>> THEN NaN
  ELSE IF flight.itineraries[1].segments = <<>> THEN NaN
  ELSE DateGetTime(flight.itineraries[1].segments[1].departure.at)

-----------------------------------------------------------------------------
(* Hook implementation, useFlightFilters.ts 101-288 *)

\* variant: the filters start with a duration ceiling of no minutes
defaultFilters_durationCeiling ==
  [stops |-> {},
   priceRange |-> [min |-> 0, max |-> Infinity],
   airlines |-> {},
   departureTimeRange |-> [start |-> "00:00", end |-> "23:59"],
   arrivalTimeRange |-> [start |-> "00:00", end |-> "23:59"],
   duration |-> 0]

defaultFilters ==
  [stops |-> {},
   priceRange |-> [min |-> 0, max |-> Infinity],
   airlines |-> {},
   departureTimeRange |-> [start |-> "00:00", end |-> "23:59"],
   arrivalTimeRange |-> [start |-> "00:00", end |-> "23:59"],
   duration |-> null]

\* Calculate price range from all flights
globalPriceRange(fl) ==
  IF Len(fl) = 0 THEN [min |-> 0, max |-> 1000 * 100]
  ELSE LET prices == {getFlightPrice(fl[i]) : i \in 1..Len(fl)}
       IN [min |-> MathFloor(Min(prices)), max |-> MathCeil(Max(prices))]

\* variant: the stop predicate runs even when nothing is selected
filterByStops_noGuard(result, f) ==
  LET keep(flight) ==
        LET stops == getFlightStops(flight)
        IN \E filter \in f.stops :
             IF filter = "non-stop" THEN stops = 0
             ELSE IF filter = "1-stop" THEN stops = 1
             ELSE IF filter = "2+-stops" THEN stops >= 2
             ELSE TRUE
  IN SelectSeq(result, keep)

\* Filter by stops
filterByStops(result, f) ==
  LET keep(flight) ==
        LET stops == getFlightStops(flight)
        IN \E filter \in f.stops :
             IF filter = "non-stop" THEN stops = 0
             ELSE IF filter = "1-stop" THEN stops = 1
             ELSE IF filter = "2+-stops" THEN stops >= 2
             ELSE TRUE
  IN IF Cardinality(f.stops) > 0 THEN SelectSeq(result, keep) ELSE result

\* the bounds the price step compares with
minPrice(f, gpr) ==
  IF f.priceRange.min = 0 THEN gpr.min ELSE f.priceRange.min
maxPrice(f, gpr) ==
  IF f.priceRange.max = Infinity THEN gpr.max ELSE f.priceRange.max

\* variant: the lower bound is exclusive
filterByPriceRange_exclusiveMin(result, f, gpr) ==
  LET keep(flight) ==
        LET price == getFlightPrice(flight)
        IN price > minPrice(f, gpr) /\ price <= maxPrice(f, gpr)
  IN IF f.priceRange.min > 0 \/ f.priceRange.max < Infinity
     THEN SelectSeq(result, keep) ELSE result

\* Filter by price range
filterByPriceRange(result, f, gpr) ==
  LET keep(flight) ==
        LET price == getFlightPrice(flight)
        IN price >= minPrice(f, gpr) /\ price <= maxPrice(f, gpr)
  IN IF f.priceRange.min > 0 \/ f.priceRange.max < Infinity
     THEN SelectSeq(result, keep) ELSE result

\* Filter by airlines
filterByAirlines(result, f) ==
  LET keep(flight) ==
        \E k \in 1..Len(flight.validatingAirlineCodes) :
          flight.validatingAirlineCodes[k] \in f.airlines
  IN IF Cardinality(f.airlines) > 0 THEN SelectSeq(result, keep) ELSE result

\* Filter by duration
filterByDuration(result, f) ==
  LET keep(flight) == getFlightDuration(flight) <= f.duration
  IN IF f.duration # null THEN SelectSeq(result, keep) ELSE result

\* the comparator handed to result.sort
compareFlights(so, a, b) ==
  IF so = "price-asc" THEN getFlightPrice(a) - getFlightPrice(b)
  ELSE IF so = "price-desc" THEN getFlightPrice(b) - getFlightPrice(a)
  ELSE IF so = "duration-asc" THEN getFlightDuration(a) - getFlightDuration(b)
  ELSE IF so = "departure-asc"
    THEN IF getDepartureTime(a) = NaN \/ getDepartureTime(b) = NaN THEN NaN
         ELSE getDepartureTime(a) - getDepartureTime(b)
  ELSE 0

\* a comparator result that puts the first argument after the second; a NaN
\* result counts as 0
isPositive(c) == c # NaN /\ c > 0
isNotNegative(c) == c # NaN /\ c >= 0

\* e is put into the sorted prefix, to the left of its last k elements
insertAt(sorted, e, k) ==
  SubSeq(sorted, 1, Len(sorted) - k) \o <<e>>
    \o SubSeq(sorted, Len(sorted) - k + 1, Len(sorted))

\* variant: the elements equal to e are also counted
RECURSIVE trailingRun_orEqual(_, _, _, _)
trailingRun_orEqual(sorted, i, e, so) ==
  IF i >= 1 /\ isNotNegative(compareFlights(so, sorted[i], e))
  THEN 1 + trailingRun_orEqual(sorted, i - 1, e, so)
  ELSE 0

\* the number of elements, from position i of the sorted prefix leftwards,
\* that the comparator puts strictly after e, up to the first that it does
\* not
RECURSIVE trailingRun(_, _, _, _)
trailingRun(sorted, i, e, so) ==
  IF i >= 1 /\ isPositive(compareFlights(so, sorted[i], e))
  THEN 1 + trailingRun(sorted, i - 1, e, so)
  ELSE 0

\* variant of the step: e also moves left past the elements equal to it
insertInto_orEqual(sorted, e, so) ==
  insertAt(sorted, e, trailingRun_orEqual(sorted, Len(sorted), e, so))

\* one step of the sort
insertInto(sorted, e, so) ==
  insertAt(sorted, e, trailingRun(sorted, Len(sorted), e, so))

\* variant: an element also moves left past the elements equal to it
RECURSIVE ArraySort_unstable(_, _)
ArraySort_unstable(s, so) ==
  IF Len(s) <= 1 THEN s
  ELSE insertInto_orEqual(ArraySort_unstable(SubSeq(s, 1, Len(s) - 1), so),
                          s[Len(s)], so)

\* Array.prototype.sort: a stable insertion sort.  Each element moves left
\* past the elements the comparator puts strictly after it.
RECURSIVE ArraySort(_, _)
ArraySort(s, so) ==
  IF Len(s) <= 1 THEN s
  ELSE insertInto(ArraySort(SubSeq(s, 1, Len(s) - 1), so), s[Len(s)], so)

\* variant: offers without an itinerary are removed before sorting
sortResults_dropNoItinerary(result, so) ==
  LET valid(flight) == flight.itineraries # <<>>
  IN ArraySort(SelectSeq(result, valid), so)

\* Sort results
sortResults(result, so) == ArraySort(result, so)

\* variant: the duration step filters the full list, not the running result
filteredFlights_durationOfAll(fl, f, so) ==
  sortResults(
    IF f.duration # null THEN filterByDuration(fl, f)
    ELSE filterByAirlines(
           filterByPriceRange(filterByStops(fl, f), f, globalPriceRange(fl)),
           f),
    so)

\* Apply filters
filteredFlights(fl, f, so) ==
  sortResults(
    filterByDuration(
      filterByAirlines(
        filterByPriceRange(filterByStops(fl, f), f, globalPriceRange(fl)),
        f),
      f),
    so)

\* variant: the list is taken to be sorted by ascending price
priceStats_assumeSorted(ff) ==
  IF Len(ff) = 0
  THEN [min |-> 0, max |-> 0, average |-> [num |-> 0, den |-> 1]]
  ELSE LET prices == [i \in 1..Len(ff) |-> getFlightPrice(ff[i])]
       IN [min |-> prices[1],
           max |-> prices[Len(ff)],
           average |-> [num |-> Sum(prices, 1..Len(ff)), den |-> Len(ff)]]

\* Calculate price statistics for filtered flights; the average is the
\* exact quotient num / den
priceStats(ff) ==
  IF Len(ff) = 0
  THEN [min |-> 0, max |-> 0, average |-> [num |-> 0, den |-> 1]]
  ELSE LET prices == [i \in 1..Len(ff) |-> getFlightPrice(ff[i])]
       IN [min |-> Min(Range(prices)),
           max |-> Max(Range(prices)),
           average |-> [num |-> Sum(prices, 1..Len(ff)), den |-> Len(ff)]]

\* variant: the bucket index is not capped at the last bucket
priceGraphData_noLastBucketCap(ff, ps) ==
  IF Len(ff) = 0 THEN <<>>
  ELSE LET bucketCount == Min({10, Len(ff)})
           zeroStep == ps.max - ps.min = 0
           stepNum == IF zeroStep THEN 100 ELSE ps.max - ps.min
           stepDen == IF zeroStep THEN 1 ELSE bucketCount
           \* Math.round(priceStats.min + i * priceStep)
           bound(i) == (2 * (ps.min * stepDen + i * stepNum) + 100 * stepDen)
                       \div (200 * stepDen)
           bucketIndex(flight) ==
             ((getFlightPrice(flight) - ps.min) * stepDen) \div stepNum
           counted(b) == {i \in 1..Len(ff) :
                            /\ bucketIndex(ff[i]) >= 0
                            /\ bucketIndex(ff[i]) < bucketCount
                            /\ bucketIndex(ff[i]) = b}
       IN [b \in 1..bucketCount |->
             [date |-> bound(b - 1),
              price |-> Cardinality(counted(b - 1)),
              label |-> <<bound(b - 1), bound(b)>>]]

\* Generate price graph data.  priceStep is the exact quotient
\* stepNum / stepDen; `date` is the rounded lower bound of the bucket and
\* `label` the pair of rounded bounds, in whole currency units; `price`
\* is the number of flights counted in the bucket.
priceGraphData(ff, ps) ==
  IF Len(ff) = 0 THEN <<>>
  ELSE LET bucketCount == Min({10, Len(ff)})
           zeroStep == ps.max - ps.min = 0
           stepNum == IF zeroStep THEN 100 ELSE ps.max - ps.min
           stepDen == IF zeroStep THEN 1 ELSE bucketCount
           \* Math.round(priceStats.min + i * priceStep)
           bound(i) == (2 * (ps.min * stepDen + i * stepNum) + 100 * stepDen)
                       \div (200 * stepDen)
           bucketIndex(flight) ==
             Min({((getFlightPrice(flight) - ps.min) * stepDen) \div stepNum,
                  bucketCount - 1})
           counted(b) == {i \in 1..Len(ff) :
                            /\ bucketIndex(ff[i]) >= 0
                            /\ bucketIndex(ff[i]) < bucketCount
                            /\ bucketIndex(ff[i]) = b}
       IN [b \in 1..bucketCount |->
             [date |-> bound(b - 1),
              price |-> Cardinality(counted(b - 1)),
              label |-> <<bound(b - 1), bound(b)>>]]

\* Check if any filters are active
\* variant: any price range other than the global range counts as active
hasActiveFilters_rangeDiffers(f, gpr) ==
  \/ Cardinality(f.stops) > 0
  \/ Cardinality(f.airlines) > 0
  \/ f.priceRange.min # gpr.min
  \/ f.priceRange.max # gpr.max
  \/ f.duration # null

hasActiveFilters(f, gpr) ==
  \/ Cardinality(f.stops) > 0
  \/ Cardinality(f.airlines) > 0
  \/ f.priceRange.min > gpr.min
  \/ f.priceRange.max < gpr.max
  \/ f.duration # null

\* the dictionaries of the response: a carrier name for AA, none for BA
dictionaries ==
  [carriers |-> ("AA" :> <<"A", "m", "e", "r", "i", "c", "a", "n">>)]

\* the characters of an airline code
Chars(code) ==
  IF code = "AA" THEN <<"A", "A">>
  ELSE IF code = "BA" THEN <<"B", "A">>
  ELSE <<>>

\* flights.forEach(flight => flight.validatingAirlineCodes.forEach(...)):
\* the codes in the order they are visited
RECURSIVE visitedCodes(_)
visitedCodes(fl) ==
  IF fl = <<>> THEN <<>>
  ELSE fl[1].validatingAirlineCodes \o visitedCodes(Tail(fl))

\* the keys of a Map, in insertion order, after set() of every visited key
RECURSIVE MapKeys(_)
MapKeys(s) ==
  IF s = <<>> THEN <<>>
  ELSE LET keys == MapKeys(SubSeq(s, 1, Len(s) - 1))
       IN IF s[Len(s)] \in Range(keys) THEN keys ELSE Append(keys, s[Len(s)])

\* airlineCounts.get(code) after all increments
airlineCounts(s, code) == Cardinality({i \in 1..Len(s) : s[i] = code})

\* .sort((a, b) => b.count - a.count): stable, an entry moves left past the
\* entries with a strictly smaller count
RECURSIVE sortByCount(_)
sortByCount(s) ==
  IF Len(s) <= 1 THEN s
  ELSE LET sorted == sortByCount(SubSeq(s, 1, Len(s) - 1))
           e == s[Len(s)]
           n == Len(sorted)
           k == Cardinality({i \in 1..n : e.count - sorted[i].count > 0})
       IN SubSeq(sorted, 1, n - k) \o <<e>> \o SubSeq(sorted, n - k + 1, n)

\* variant: the options are counted over the filtered and sorted offers
airlineOptions_ofFilteredFlights(fl, dict) ==
  LET codes == visitedCodes(filteredFlights(fl, filters, sortOption))
      keys == MapKeys(codes)
  IN sortByCount([i \in 1..Len(keys) |->
                    [code |-> keys[i],
                     name |-> IF keys[i] \in DOMAIN dict.carriers
                              THEN dict.carriers[keys[i]] ELSE Chars(keys[i]),
                     count |-> airlineCounts(codes, keys[i])]])

\* Get unique airlines with counts
airlineOptions(fl, dict) ==
  LET codes == visitedCodes(fl)
      keys == MapKeys(codes)
  IN sortByCount([i \in 1..Len(keys) |->
                    [code |-> keys[i],
                     name |-> IF keys[i] \in DOMAIN dict.carriers
                              THEN dict.carriers[keys[i]] ELSE Chars(keys[i]),
                     count |-> airlineCounts(codes, keys[i])]])

-----------------------------------------------------------------------------
(* The flight list, components/results/FlightList.tsx *)

UpperLetters ==
  <<"A", "B", "C", "D", "E", "F", "G", "H", "I", "J", "K", "L", "M",
    "N", "O", "P", "Q", "R", "S", "T", "U", "V", "W", "X", "Y", "Z">>
LowerLetters ==
  <<"a", "b", "c", "d", "e", "f", "g", "h", "i", "j", "k", "l", "m",
    "n", "o", "p", "q", "r", "s", "t", "u", "v", "w", "x", "y", "z">>

\* String.prototype.toLowerCase
toLowerCase(str) ==
  [i \in 1..Len(str) |->
     IF \E k \in 1..26 : UpperLetters[k] = str[i]
     THEN LowerLetters[CHOOSE k \in 1..26 : UpperLetters[k] = str[i]]
     ELSE str[i]]

\* String.prototype.includes
includes(str, sub) ==
  \E i \in 0..(Len(str) - Len(sub)) : SubSeq(str, i + 1, i + Len(sub)) = sub

\* Get stop count from flight itinerary (utils/formatters.ts)
getStopCount(segments) ==
  LET segmentStops == SeqSum([k \in 1..Len(segments) |-> segments[k].numberOfStops])
      connections == Max({0, Len(segments) - 1})
  IN segmentStops + connections

\* the search text matches the first airline code, its carrier name, the
\* origin of the first itinerary or its destination
matchesSearch(flight, tf, carriers) ==
  LET searchLower == toLowerCase(tf.search)
      codes == flight.validatingAirlineCodes
      airlineName == IF codes # <<>> /\ codes[1] \in DOMAIN carriers
                     THEN carriers[codes[1]] ELSE <<>>
      segs == IF flight.itineraries = <<>> THEN <<>>
              ELSE flight.itineraries[1].segments
      origin == IF segs = <<>> THEN <<>> ELSE segs[1].departure.iataCode
      destination == IF segs = <<>> THEN <<>> ELSE segs[Len(segs)].arrival.iataCode
  IN \/ codes # <<>> /\ includes(toLowerCase(Chars(codes[1])), searchLower)
     \/ includes(toLowerCase(airlineName), searchLower)
     \/ includes(toLowerCase(origin), searchLower)
     \/ includes(toLowerCase(destination), searchLower)

\* the predicate of flights.filter(...), 820-861
passesTableFilters(flight, tf, carriers) ==
  /\ tf.search # <<>> => matchesSearch(flight, tf, carriers)
  /\ tf.maxPrice # null => ~(ParseFloat(flight.price.grandTotal) > tf.maxPrice)
  /\ tf.maxStops # null =>
       ~(getStopCount(IF flight.itineraries = <<>> THEN <<>>
                      ELSE flight.itineraries[1].segments) > tf.maxStops)
  /\ Cardinality(tf.airlines) > 0 =>
       \E i \in 1..Len(flight.validatingAirlineCodes) :
         flight.validatingAirlineCodes[i] \in tf.airlines

\* variant: an offer passes when it passes any one of the filters that are set
tableFilteredFlights_anyFilter(fl, tf, carriers) ==
  LET set == tf.search # <<>> \/ tf.maxPrice # null \/ tf.maxStops # null
             \/ Cardinality(tf.airlines) > 0
      keep(flight) ==
        \/ ~set
        \/ tf.search # <<>> /\ matchesSearch(flight, tf, carriers)
        \/ tf.maxPrice # null /\ ~(ParseFloat(flight.price.grandTotal) > tf.maxPrice)
        \/ tf.maxStops # null /\
             ~(getStopCount(IF flight.itineraries = <<>> THEN <<>>
                            ELSE flight.itineraries[1].segments) > tf.maxStops)
        \/ Cardinality(tf.airlines) > 0 /\
             \E i \in 1..Len(flight.validatingAirlineCodes) :
               flight.validatingAirlineCodes[i] \in tf.airlines
  IN SelectSeq(fl, keep)

\* Apply table filters (FlightList's filteredFlights)
tableFilteredFlights(fl, tf, carriers) ==
  LET keep(flight) == passesTableFilters(flight, tf, carriers)
  IN SelectSeq(fl, keep)

\* null where the id of an offer is expected
nullId == "null"

\* variant: the first offer of the list as it is, without the sorted copy
lowestPriceId_firstListed(ff) ==
  IF Len(ff) = 0 THEN nullId
  ELSE ff[1].id

\* Find lowest price flight: the first of a sorted copy, the comparator
\* being the one of the price-asc sort
lowestPriceId(ff) ==
  IF Len(ff) = 0 THEN nullId
  ELSE ArraySort(ff, "price-asc")[1].id

\* isLowest={flight.id === lowestPriceId}
isLowest(flight, lowest) == flight.id = lowest

\* Array.prototype.slice(start, end) of non-negative indices
slice(arr, start, end) == SubSeq(arr, start + 1, Min({end, Len(arr)}))

\* variant: the page starts at the page index
paginatedFlights_startAtPage(ff, p, size) ==
  LET startIndex == p
  IN slice(ff, startIndex, startIndex + size)

\* Paginated flights
paginatedFlights(ff, p, size) ==
  LET startIndex == p * size
  IN slice(ff, startIndex, startIndex + size)

\* count of the Pagination control
pageCount(ff, size) == (Len(ff) + size - 1) \div size

PAGE_SIZE_OPTIONS == {5, 10, 15, 25, 50}

-----------------------------------------------------------------------------
(* Seat normalization, hooks/useSeatmap.ts and *)
(* components/seatmap/SeatmapView.tsx (the same helpers twice) *)

CabinClass == {"ECONOMY", "PREMIUM_ECONOMY", "BUSINESS", "FIRST"}

\* a raw seat (types/seatmap.types.ts); the seats of the model carry no
\* travelerPricing, so displayPrice stays undefined (absent)
Seat(number, cabin, codes) ==
  [number |-> number, cabin |-> cabin, characteristicsCodes |-> codes,
   availabilityStatus |-> "AVAILABLE"]

\* undefined where a seat number is expected
undefined == <<"undefined">>

\* a character [A-Z] matches under the i flag
IsLetter(c) == \E k \in 1..26 : UpperLetters[k] = c \/ LowerLetters[k] = c

\* the letters from position i on
RECURSIVE LetterRun(_, _)
LetterRun(s, i) ==
  IF i <= Len(s) /\ IsLetter(s[i]) THEN 1 + LetterRun(s, i + 1) ELSE 0

\* String.prototype.toUpperCase
toUpperCase(str) ==
  [i \in 1..Len(str) |->
     IF \E k \in 1..26 : LowerLetters[k] = str[i]
     THEN UpperLetters[CHOOSE k \in 1..26 : LowerLetters[k] = str[i]]
     ELSE str[i]]

\* variant: the pattern without its end anchor, /^(\d+)([A-Z]+)/i
matchSeatNumber_noEndAnchor(seatNumber) ==
  LET d == DigitRun(seatNumber, 1)
      l == LetterRun(seatNumber, d + 1)
  IN IF d >= 1 /\ l >= 1
     THEN <<SubSeq(seatNumber, 1, d), SubSeq(seatNumber, d + 1, d + l)>>
     ELSE <<>>

\* seatNumber.match(/^(\d+)([A-Z]+)$/i): the two groups, <<>> for null.
\* No digit is a letter, so the first group is the whole leading run of
\* digits and the second the run of letters after it, up to the end.
matchSeatNumber(seatNumber) ==
  LET d == DigitRun(seatNumber, 1)
      l == LetterRun(seatNumber, d + 1)
  IN IF d >= 1 /\ l >= 1 /\ d + l = Len(seatNumber)
     THEN <<SubSeq(seatNumber, 1, d), SubSeq(seatNumber, d + 1, d + l)>>
     ELSE <<>>

\* Extract row number and column letter from seat number
parseSeatNumber(seatNumber) ==
  LET match == matchSeatNumber(seatNumber)
  IN IF match = <<>> THEN [row |-> 0, column |-> <<>>]
     ELSE [row |-> ParseDigits(match[1]), column |-> toUpperCase(match[2])]

\* Check if seat has a specific characteristic:
\* seat.characteristicsCodes?.includes(code) ?? false
hasCharacteristic(seat, code) ==
  IF "characteristicsCodes" \in DOMAIN seat
  THEN \E i \in 1..Len(seat.characteristicsCodes) :
         seat.characteristicsCodes[i] = code
  ELSE FALSE

\* the fields processSeat derives
derivedFields(seat, selectedSeatNumber, isWindow, isAisle, isMiddle) ==
  [row |-> parseSeatNumber(seat.number).row,
   column |-> parseSeatNumber(seat.number).column,
   isWindow |-> isWindow,
   isAisle |-> isAisle,
   isMiddle |-> isMiddle,
   isExitRow |-> hasCharacteristic(seat, "E"),
   isExtraLegroom |-> hasCharacteristic(seat, "L"),
   isPremium |-> hasCharacteristic(seat, "P") \/ hasCharacteristic(seat, "CH"),
   isSelected |-> seat.number = selectedSeatNumber]

\* variant: a seat is a middle seat only when it is coded M
processSeat_middleOnlyWhenCoded(seat, selectedSeatNumber) ==
  derivedFields(seat, selectedSeatNumber,
                hasCharacteristic(seat, "W"),
                hasCharacteristic(seat, "A"),
                hasCharacteristic(seat, "M")) @@ seat

\* Process raw seat data into UI-friendly format: { ...seat, row, ... }
processSeat(seat, selectedSeatNumber) ==
  derivedFields(seat, selectedSeatNumber,
                hasCharacteristic(seat, "W"),
                hasCharacteristic(seat, "A"),
                hasCharacteristic(seat, "M")
                  \/ (~hasCharacteristic(seat, "W") /\ ~hasCharacteristic(seat, "A"))) @@ seat

cabinOrder == <<"FIRST", "BUSINESS", "PREMIUM_ECONOMY", "ECONOMY">>
cabinDisplayNames ==
  [cabin \in CabinClass |->
     CASE cabin = "FIRST" -> "First Class"
       [] cabin = "BUSINESS" -> "Business Class"
       [] cabin = "PREMIUM_ECONOMY" -> "Premium Economy"
       [] cabin = "ECONOMY" -> "Economy"]

\* variant: the group of a cabin holds the seats whose number was parsed
cabinGroupsGet_parsedOnly(seats, cabin) ==
  LET inCabin(seat) == seat.cabin = cabin /\ seat.column # <<>>
  IN SelectSeq(seats, inCabin)

\* cabinGroups.get(cabin): the seats of the cabin in the order of the list
\* (<<>> for undefined: the loop skips both)
cabinGroupsGet(seats, cabin) ==
  LET inCabin(seat) == seat.cabin = cabin
  IN SelectSeq(seats, inCabin)

\* [...new Set(numbers)].sort((a, b) => a - b)
RECURSIVE sortedNumbers(_)
sortedNumbers(set) ==
  IF set = {} THEN <<>>
  ELSE <<Min(set)>> \o sortedNumbers(set \ {Min(set)})

\* the code unit of a column letter, counted from "A"
codeUnit(c) == CHOOSE k \in 1..26 : UpperLetters[k] = c

\* a sorts before b or is b, by code units (the default sort of strings)
RECURSIVE stringLeq(_, _)
stringLeq(a, b) ==
  IF a = <<>> THEN TRUE
  ELSE IF b = <<>> THEN FALSE
  ELSE IF a[1] # b[1] THEN codeUnit(a[1]) < codeUnit(b[1])
  ELSE stringLeq(Tail(a), Tail(b))

\* [...new Set(strings)].sort()
RECURSIVE sortedStrings(_)
sortedStrings(set) ==
  IF set = {} THEN <<>>
  ELSE LET first == CHOOSE a \in set : \A b \in set : stringLeq(a, b)
       IN <<first>> \o sortedStrings(set \ {first})

\* one pushed section
CabinSection(cabin, cabinSeats) ==
  [cabin |-> cabin,
   displayName |-> cabinDisplayNames[cabin],
   seats |-> cabinSeats,
   rows |-> sortedNumbers({cabinSeats[k].row : k \in 1..Len(cabinSeats)}),
   columns |-> sortedStrings({cabinSeats[k].column : k \in 1..Len(cabinSeats)}),
   startRow |-> Min({cabinSeats[k].row : k \in 1..Len(cabinSeats)}),
   endRow |-> Max({cabinSeats[k].row : k \in 1..Len(cabinSeats)})]

\* the cabins of the seats in the order the Map first saw them
RECURSIVE cabinsSeen(_)
cabinsSeen(seats) ==
  IF seats = <<>> THEN <<>>
  ELSE LET before == cabinsSeen(SubSeq(seats, 1, Len(seats) - 1))
           cabin == seats[Len(seats)].cabin
       IN IF \E i \in 1..Len(before) : before[i] = cabin THEN before
          ELSE Append(before, cabin)

\* the loop over an order of cabins, from its i-th cabin on
RECURSIVE sectionsFrom(_, _, _)
sectionsFrom(seats, order, i) ==
  IF i > Len(order) THEN <<>>
  ELSE (IF cabinGroupsGet(seats, order[i]) = <<>> THEN <<>>
        ELSE <<CabinSection(order[i], cabinGroupsGet(seats, order[i]))>>)
       \o sectionsFrom(seats, order, i + 1)

\* variant: the sections in the order of the Map's keys
groupSeatsByCabin_mapOrder(seats) == sectionsFrom(seats, cabinsSeen(seats), 1)

\* Group seats by cabin class and organize into sections
groupSeatsByCabin(seats) == sectionsFrom(seats, cabinOrder, 1)

\* deck.seats || []
deckSeats(deck) == IF "seats" \in DOMAIN deck THEN deck.seats ELSE <<>>

\* seatmap.decks.flatMap(deck => deck.seats || [])
RECURSIVE flatMapSeats(_)
flatMapSeats(decks) ==
  IF decks = <<>> THEN <<>>
  ELSE deckSeats(Head(decks)) \o flatMapSeats(Tail(decks))

\* variant: the selected seat number is not handed on
processSeats_noSelection(sm, selectedSeatNumber) ==
  LET allSeats == flatMapSeats(sm.decks)
  IN [k \in 1..Len(allSeats) |-> processSeat(allSeats[k], undefined)]

\* Helper to process all seats with selection state
processSeats(sm, selectedSeatNumber) ==
  LET allSeats == flatMapSeats(sm.decks)
  IN [k \in 1..Len(allSeats) |-> processSeat(allSeats[k], selectedSeatNumber)]

\* Helper to get cabin sections from a seatmap
getCabinSections(sm) == groupSeatsByCabin(processSeats(sm, undefined))

-----------------------------------------------------------------------------
(* State machine *)

\* the table filters FlightList starts with (783-788)
defaultTableFilters ==
  [search |-> <<>>, maxPrice |-> null, maxStops |-> null, airlines |-> {}]

\* the numbers a price range is set to, in hundredths
RangeMins == {0, 30000, 50000}
RangeMaxs == {30000, 50000, Infinity}

Init ==
  /\ flights = <<>>
  /\ filters = defaultFilters
  /\ sortOption = "price-asc"
  /\ page = 0
  /\ rowsPerPage = 10
  /\ tableFilters = defaultTableFilters
  /\ seatmap = [decks |-> <<>>]
  /\ selectedSeat = [number |-> undefined]
  /\ localValue = <<0, 0>>
  /\ timeoutRef = null
  /\ timers = {}
  /\ timerIds = 0
  /\ ran = 0
  /\ lastCall = [id |-> 0]
  /\ lastAction = "none"
  /\ isModalOpen = FALSE
  /\ selectedFlight = [id |-> "null"]
  /\ clearTimers = <<>>
  /\ lastOpened = [id |-> "null"]
  /\ tokenCache = [accessToken |-> null]
  /\ tokensIssued = 0
  /\ requests = [r \in 1..MaxRequests |->
                  [pc |-> "idle", retry |-> FALSE, token |-> 0, sends |-> 0,
                   status |-> 0, refused |-> 0, tokensAtSend |-> 0]]

\* the values the hook returns in the current state
visible == filteredFlights(flights, filters, sortOption)
stats == priceStats(visible)
graph == priceGraphData(visible, stats)

\* FlightList is mounted: its state is the initial state (773-788)
FlightListMount ==
  /\ page' = 0
  /\ rowsPerPage' = 10
  /\ tableFilters' = defaultTableFilters

\* FlightList renders again with the hook's new filteredFlights as its
\* flights prop and its table filters untouched: the page-reset effect
\* (790-793) runs when the length of the prop is not the one of the last
\* render.  fl, f and so are the hook's state after the step.
FlightListRender(fl, f, so) ==
  /\ page' = IF page # 0 /\ Len(filteredFlights(fl, f, so)) = Len(visible)
             THEN page ELSE 0
  /\ UNCHANGED <<rowsPerPage, tableFilters>>

\* the state FlightList is mounted with
FlightListMounted ==
  page = 0 /\ rowsPerPage = 10 /\ tableFilters = defaultTableFilters

\* App shows FlightList only while the response has offers and is not
\* loading: a response that was loaded first mounts the component anew,
\* a response that replaces the data in place (cache, refetch) renders it.
\* On a component in its mounted state the two are the same step.
FlightListAfterResponse(fl) ==
  \E loaded \in (IF FlightListMounted THEN {TRUE} ELSE BOOLEAN) :
    IF loaded \/ flights = <<>> \/ fl = <<>>
    THEN FlightListMount ELSE FlightListRender(fl, filters, sortOption)

\* the query delivers a search response: the flights prop changes
receiveFlights ==
  \E l \in OfferLists(MaxFlights) :
    /\ flights' = l
    /\ UNCHANGED <<filters, sortOption, besidesResults>>
    /\ FlightListAfterResponse(l)

\* the hook's state setter for filters, then the render
setFilters(f) ==
  /\ filters' = f
  /\ UNCHANGED <<flights, sortOption, besidesResults>>
  /\ FlightListRender(flights, f, sortOption)

setStopFilters ==
  \E stops \in SUBSET StopFilter : setFilters([filters EXCEPT !.stops = stops])

setPriceRange ==
  \E lo \in RangeMins, hi \in RangeMaxs :
    setFilters([filters EXCEPT !.priceRange = [min |-> lo, max |-> hi]])

setAirlineFilters ==
  \E airlines \in SUBSET AirlineCodes :
    setFilters([filters EXCEPT !.airlines = airlines])

setSortOption ==
  \E option \in SortOption :
    /\ sortOption' = option
    /\ UNCHANGED <<flights, filters, besidesResults>>
    /\ FlightListRender(flights, filters, option)

resetFilters ==
  /\ filters' = defaultFilters
  /\ sortOption' = "price-asc"
  /\ UNCHANGED <<flights, besidesResults>>
  /\ FlightListRender(flights, defaultFilters, "price-asc")

Next ==
  \/ receiveFlights
  \/ setStopFilters
  \/ setPriceRange
  \/ setAirlineFilters
  \/ setSortOption
  \/ resetFilters

Spec == Init /\ [][Next]_vars

\* the same hook fed with large responses, for the values derived from
\* more offers than the price graph has buckets
receiveLargeResponse ==
  \E l \in LargeOfferLists :
    /\ flights' = l
    /\ UNCHANGED <<filters, sortOption, besidesResults>>
    /\ FlightListAfterResponse(l)

LargeNext ==
  \/ receiveLargeResponse
  \/ setStopFilters
  \/ setPriceRange
  \/ setAirlineFilters
  \/ setSortOption
  \/ resetFilters

LargeSpec == Init /\ [][LargeNext]_vars

-----------------------------------------------------------------------------
(* The flight list under the hook *)

\* what FlightList shows: its flights prop is the hook's filteredFlights
listed == tableFilteredFlights(visible, tableFilters, dictionaries.carriers)
pageItems == paginatedFlights(listed, page, rowsPerPage)

\* the short responses of this specification; the long ones, which fill
\* several pages, are the large responses
ListedOfferLists == OfferLists(MaxListed)

receiveListedResponse ==
  \E l \in ListedOfferLists :
    /\ flights' = l
    /\ UNCHANGED <<filters, sortOption, besidesResults>>
    /\ FlightListAfterResponse(l)

\* the filter bar is rendered while the flights prop is not empty (966);
\* the page controls while the table-filtered list is not empty (1066)
FilterBarShown == Len(visible) > 0

\* onFiltersChange={setTableFilters}: the state is a new object, so the
\* page-reset effect runs after the render
setTableFilters(tf) ==
  /\ tableFilters' = tf
  /\ page' = 0
  /\ UNCHANGED <<flights, filters, sortOption, rowsPerPage, besidesResults>>

SearchTexts == {<<>>, <<"b", "a">>, <<"J", "F">>}
MaxPrices == {null, 30000}
MaxStops == {null, 0}
TableAirlines == {{}, {"AA"}}

setSearch ==
  /\ FilterBarShown
  /\ \E text \in SearchTexts :
       setTableFilters([tableFilters EXCEPT !.search = text])

setMaxPrice ==
  /\ FilterBarShown
  /\ \E value \in MaxPrices :
       setTableFilters([tableFilters EXCEPT !.maxPrice = value])

setMaxStops ==
  /\ FilterBarShown
  /\ \E value \in MaxStops :
       setTableFilters([tableFilters EXCEPT !.maxStops = value])

setTableAirlines ==
  /\ FilterBarShown
  /\ \E value \in TableAirlines :
       setTableFilters([tableFilters EXCEPT !.airlines = value])

handleClearFilters ==
  /\ FilterBarShown
  /\ setTableFilters(defaultTableFilters)

\* the Pagination control offers the pages 1..count of a non-empty list
handlePageChange ==
  /\ Len(listed) > 0
  /\ \E newPage \in 0..(pageCount(listed, rowsPerPage) - 1) : page' = newPage
  /\ UNCHANGED <<flights, filters, sortOption, rowsPerPage, tableFilters, besidesResults>>

\* rows-per-page onChange: setRowsPerPage(size); setPage(0)
setRowsPerPage ==
  /\ Len(listed) > 0
  /\ \E size \in PAGE_SIZE_OPTIONS : rowsPerPage' = size
  /\ page' = 0
  /\ UNCHANGED <<flights, filters, sortOption, tableFilters, besidesResults>>

ListNext ==
  \/ receiveListedResponse
  \/ receiveLargeResponse
  \/ setSortOption
  \/ resetFilters
  \/ setSearch
  \/ setMaxPrice
  \/ setMaxStops
  \/ setTableAirlines
  \/ handleClearFilters
  \/ handlePageChange
  \/ setRowsPerPage

ListSpec == Init /\ [][ListNext]_vars

-----------------------------------------------------------------------------
(* The seat map view, components/seatmap/SeatmapView.tsx *)

\* The seats a seat-map response is drawn from.  Between them they have
\* numbers the pattern matches (upper and lower case letters, a leading
\* zero, two letters) and numbers it does not (no digits, no letters,
\* a digit after the letters, the empty string), every cabin class, the position codes alone, together and
\* absent, a seat without any list of codes, and one number twice.
SeatPool ==
  { Seat(<<"1", "2", "A">>, "ECONOMY", <<"W">>),
    Seat(<<"1", "2", "B">>, "ECONOMY", <<>>),
    Seat(<<"1", "4", "C">>, "ECONOMY", <<"A">>),
    Seat(<<"1", "4", "D">>, "ECONOMY", <<"A">>),
    Seat(<<"1", "2", "A">>, "BUSINESS", <<"M", "CH">>),
    Seat(<<"7", "f">>, "PREMIUM_ECONOMY", <<"E", "M", "A">>),
    Seat(<<"0", "2", "K">>, "BUSINESS", <<"W", "A">>),
    Seat(<<"1", "A", "b">>, "FIRST", <<"L">>),
    [number |-> <<"3", "C">>, cabin |-> "BUSINESS",
     availabilityStatus |-> "OCCUPIED"],
    Seat(<<"b", "a", "d">>, "ECONOMY", <<"E">>),
    Seat(<<>>, "BUSINESS", <<"W">>),
    Seat(<<"1", "2">>, "FIRST", <<"A">>),
    Seat(<<"7", "F", "2">>, "ECONOMY", <<"P">>) }

\* the lists of at most n seats
RECURSIVE SeatLists(_)
SeatLists(n) ==
  IF n = 0 THEN {<<>>}
  ELSE SeatLists(n - 1) \cup
       {Append(l, seat) : l \in {x \in SeatLists(n - 1) : Len(x) = n - 1},
                          seat \in SeatPool}

\* a deck with these seats; a deck without seats comes with an empty list
\* or with no list
Decks(deckType, seats) ==
  {[deckType |-> deckType, seats |-> seats]}
    \cup (IF seats = <<>> THEN {[deckType |-> deckType]} ELSE {})

\* the seat maps of a response: no deck, a main deck, or a main and an
\* upper deck that share the seats
Seatmaps ==
  {[decks |-> <<>>]}
    \cup {[decks |-> <<main>>] :
            main \in UNION {Decks("MAIN", l) : l \in SeatLists(MaxSeats)}}
    \cup UNION {UNION {{[decks |-> <<main, upper>>] :
                          main \in Decks("MAIN", SubSeq(l, 1, k)),
                          upper \in Decks("UPPER", SubSeq(l, k + 1, Len(l)))} :
                       k \in 0..Len(l)} :
                l \in SeatLists(MaxSeats)}

\* While the seat-map query has no data the view shows a skeleton and no
\* segment seat map (SeatmapView.tsx 340); the model holds a seat map
\* without decks then.
noSeatmap == [decks |-> <<>>]

\* selectedSeats[segmentId] || null of the shown segment; null is held as
\* a seat of which ?.number is undefined
nullSeat == [number |-> undefined]

\* the response arrives: the seat map of the shown segment
receiveSeatmap ==
  /\ seatmap = noSeatmap
  /\ \E sm \in Seatmaps : seatmap' = sm
  /\ UNCHANGED <<selectedSeat, besidesSeatmap>>

\* another offer is opened: its query (key [SEATMAP, flightOffer.id]) has
\* no data yet, and the view is mounted anew with no selected seat
changeFlightOffer ==
  /\ seatmap # noSeatmap
  /\ seatmap' = noSeatmap
  /\ selectedSeat' = nullSeat
  /\ UNCHANGED besidesSeatmap

\* Process seats and group by cabin
cabinSections == groupSeatsByCabin(processSeats(seatmap, selectedSeat.number))

\* seatsByRow.get(rowNumber) of a section (SeatGrid.tsx 228-236)
seatsByRow(section, rowNumber) ==
  LET inRow(seat) == seat.row = rowNumber
  IN SelectSeq(section.seats, inRow)

\* the places of a row that hold a seat the row shows: seatMap.set(column,
\* seat) keeps the last seat of a column (SeatGrid.tsx 87-93)
shownPlaces(rowSeats) ==
  {k \in 1..Len(rowSeats) :
     \A later \in (k + 1)..Len(rowSeats) :
       rowSeats[later].column # rowSeats[k].column}

\* the seat as SeatRow hands it to Seat:
\* { ...seat, isSelected: seat.number === selectedSeatNumber }
asShown(seat, selectedSeatNumber) ==
  [seat EXCEPT !.isSelected = (seat.number = selectedSeatNumber)]

\* the seats a section shows (SeatGrid.tsx 317-330, 142-158)
shownSeats(section, selectedSeatNumber) ==
  UNION {{asShown(seatsByRow(section, section.rows[r])[k], selectedSeatNumber) :
            k \in shownPlaces(seatsByRow(section, section.rows[r]))} :
         r \in 1..Len(section.rows)}

\* a click on a shown seat that is available (Seat's handleClick, then
\* handleSeatSelect of the shown segment)
handleSeatSelect ==
  /\ \E i \in 1..Len(cabinSections) :
       \E seat \in shownSeats(cabinSections[i], selectedSeat.number) :
         /\ seat.availabilityStatus = "AVAILABLE"
         /\ selectedSeat' = seat
  /\ UNCHANGED <<seatmap, besidesSeatmap>>

\* the Clear button of the seat details panel, shown for a selected seat
handleSeatClear ==
  /\ selectedSeat # nullSeat
  /\ selectedSeat' = nullSeat
  /\ UNCHANGED <<seatmap, besidesSeatmap>>

SeatNext ==
  \/ receiveSeatmap
  \/ changeFlightOffer
  \/ handleSeatSelect
  \/ handleSeatClear

SeatSpec == Init /\ [][SeatNext]_vars

-----------------------------------------------------------------------------
(* The price range filter, components/filters/PriceRangeFilter.tsx, and   *)
(* its debounced callback, hooks/useOptimizations.ts                      *)

\* A timer of the runtime is [id, args, elapsed]: the id setTimeout
\* returned, the arguments its callback passes on and the time since it
\* was set.  Time passes in halves of the debounce delay.
DEBOUNCE_DELAY == 300

\* Derived state: Price range for filters (the min and max props)
priceRange(fl) ==
  IF Len(fl) = 0 THEN [min |-> 0, max |-> 1000 * 100]
  ELSE [min |-> MathFloor(Min({ParseFloat(fl[i].price.grandTotal) : i \in 1..Len(fl)})),
        max |-> MathCeil(Max({ParseFloat(fl[i].price.grandTotal) : i \in 1..Len(fl)}))]

\* parseInt(inputValue, 10): an optional sign and the leading digits
parseInt(s) ==
  IF s # <<>> /\ s[1] = "-"
  THEN IF DigitRun(s, 2) = 0 THEN NaN
       ELSE 0 - 100 * ParseDigits(SubSeq(s, 2, 1 + DigitRun(s, 2)))
  ELSE IF DigitRun(s, 1) = 0 THEN NaN
       ELSE 100 * ParseDigits(SubSeq(s, 1, DigitRun(s, 1)))

\* x || fallback on numbers
orElse(x, fallback) == IF x = NaN \/ x = 0 THEN fallback ELSE x

\* the value localValue is set to from the props
localValueOf(value, bounds) ==
  <<orElse(value.min, bounds.min),
    IF value.max = Infinity THEN bounds.max ELSE value.max>>

\* Sync with external value changes: the effect runs on a render with a
\* changed value, min or max, and the memoized component renders only
\* then (arePropsEqual)
syncLocalValue(local, value, bounds, newValue, newBounds) ==
  IF /\ value.min = newValue.min
     /\ value.max = newValue.max
     /\ bounds = newBounds
  THEN local
  ELSE localValueOf(newValue, newBounds)

\* Memoize step calculation
step(bounds) ==
  100 * Max({1, ((bounds.max - bounds.min) \div 100 + 50) \div 100})

\* App shows the filter panel, and in it the price range filter, while the
\* response has offers; its fields are enabled then
PriceRangeFilterMounted == flights # <<>>

\* the state kept for a component that is not mounted
notMounted == <<0, 0>>

\* clearTimeout(id) on the pending timers, without the guard
clearTimeout_keepPending(pending, id) == pending

\* if (timeoutRef.current) clearTimeout(timeoutRef.current)
clearTimeout(pending, id) ==
  IF id = null THEN pending ELSE {t \in pending : t.id # id}

\* setTimeout(() => callbackRef.current(...args), delay)
setTimeout(pending, id, args) ==
  pending \cup {[id |-> id, args |-> args, elapsed |-> 0]}

\* the debounced function returned by useDebouncedCallback
debouncedOnChange(newRange) ==
  /\ timers' = setTimeout(clearTimeout(timers, timeoutRef), timerIds + 1,
                          newRange)
  /\ timeoutRef' = timerIds + 1
  /\ timerIds' = timerIds + 1
  /\ lastCall' = [id |-> timerIds + 1, args |-> newRange, elapsed |-> 0]

\* onChange is the hook's setPriceRange: the filters change, the price
\* range filter renders with the new value and the flight list with the
\* new filteredFlights
onChange(range) ==
  /\ filters' = [filters EXCEPT !.priceRange = range]
  /\ localValue' = IF PriceRangeFilterMounted
                   THEN syncLocalValue(localValue, filters.priceRange,
                                       priceRange(flights), range,
                                       priceRange(flights))
                   ELSE localValue
  /\ UNCHANGED <<flights, sortOption>>
  /\ FlightListRender(flights, [filters EXCEPT !.priceRange = range],
                      sortOption)

\* the responses of this specification: price ranges 300..500 and 120..500
PricedResponses == {<<OfferB, OfferA>>, <<OfferA, OfferE>>}

\* what is typed into a price field
PriceInputs == {<<"4", "0", "0">>, <<"2", "0", "0", ".", "5">>, <<>>}

\* the range handleInputChange makes of the typed number
typedRange(type, numValue, local, bounds) ==
  IF type = "min"
  THEN [min |-> Max({bounds.min, Min({numValue, local[2]})}), max |-> local[2]]
  ELSE [min |-> local[1], max |-> Min({bounds.max, Max({numValue, local[1]})})]

\* Handle input change with debouncing
handleInputChange ==
  /\ PriceRangeFilterMounted
  /\ timerIds < MaxTimers
  /\ \E type \in {"min", "max"}, inputValue \in PriceInputs :
       /\ localValue' = <<typedRange(type, orElse(parseInt(inputValue), 0),
                                     localValue, priceRange(flights)).min,
                          typedRange(type, orElse(parseInt(inputValue), 0),
                                     localValue, priceRange(flights)).max>>
       /\ debouncedOnChange(typedRange(type, orElse(parseInt(inputValue), 0),
                                       localValue, priceRange(flights)))
  /\ lastAction' = "type"
  /\ UNCHANGED <<hookVars, listVars, ran, besidesPrice>>

\* the positions the slider is moved to
SliderStops(bounds) == {bounds.min, bounds.min + step(bounds), bounds.max}

\* Handle slider change (local only, no external update yet)
handleSliderChange ==
  /\ PriceRangeFilterMounted
  /\ priceRange(flights).min # priceRange(flights).max
  /\ \E newMin \in SliderStops(priceRange(flights)),
        newMax \in SliderStops(priceRange(flights)) :
       /\ newMin <= newMax
       /\ localValue' = <<newMin, newMax>>
  /\ UNCHANGED <<hookVars, listVars, timeoutRef, timers, timerIds, ran,
                 lastCall, lastAction, besidesPrice>>

\* Handle slider commit (update external state): the slider commits the
\* value it was last moved to
handleSliderCommit ==
  /\ PriceRangeFilterMounted
  /\ priceRange(flights).min # priceRange(flights).max
  /\ onChange([min |-> localValue[1], max |-> localValue[2]])
  /\ lastAction' = "commit"
  /\ UNCHANGED <<timeoutRef, timers, timerIds, ran, lastCall, besidesPrice>>

\* a timer of the runtime is due and runs callbackRef.current(...args);
\* timers of one delay run in the order they were set
timerFires ==
  /\ \E t \in timers :
       /\ t.elapsed >= DEBOUNCE_DELAY
       /\ \A u \in timers : u.id >= t.id
       /\ timers' = timers \ {t}
       /\ ran' = t.id
       /\ onChange(t.args)
  /\ UNCHANGED <<timeoutRef, timerIds, lastCall, lastAction, besidesPrice>>

\* the Reset button of the filter panel, shown while hasActiveFilters:
\* onReset is the hook's resetFilters
handleReset ==
  /\ PriceRangeFilterMounted
  /\ hasActiveFilters(filters, globalPriceRange(flights))
  /\ filters' = defaultFilters
  /\ sortOption' = "price-asc"
  /\ localValue' = syncLocalValue(localValue, filters.priceRange,
                                  priceRange(flights),
                                  defaultFilters.priceRange,
                                  priceRange(flights))
  /\ FlightListRender(flights, defaultFilters, "price-asc")
  /\ lastAction' = "reset"
  /\ UNCHANGED <<flights, timeoutRef, timers, timerIds, ran, lastCall,
                 besidesPrice>>

\* Cleanup on unmount
unmountCleanup ==
  /\ timers' = clearTimeout(timers, timeoutRef)
  /\ timeoutRef' = null
  /\ localValue' = notMounted

\* the component after a search whose response is l
afterSearch(l) ==
  IF l = <<>>
  THEN IF PriceRangeFilterMounted THEN unmountCleanup
       ELSE UNCHANGED <<localValue, timeoutRef, timers>>
  ELSE /\ localValue' =
            IF PriceRangeFilterMounted
            THEN syncLocalValue(localValue, filters.priceRange,
                                priceRange(flights),
                                defaultFilters.priceRange, priceRange(l))
            ELSE localValueOf(defaultFilters.priceRange, priceRange(l))
       /\ timeoutRef' = IF PriceRangeFilterMounted THEN timeoutRef ELSE null
       /\ UNCHANGED timers

\* a new search: the filters are reset and the query of the new
\* parameters has its response in the cache (the list changes in place)
\* or is loading (no offers, the results and the filter panel unmount)
handleSearch ==
  /\ filters' = defaultFilters
  /\ sortOption' = "price-asc"
  /\ lastAction' = "search"
  /\ \E l \in PricedResponses \cup {<<>>} :
       /\ flights' = l
       /\ afterSearch(l)
       /\ IF flights = <<>> \/ l = <<>> THEN FlightListMount
          ELSE FlightListRender(l, defaultFilters, "price-asc")
  /\ UNCHANGED <<timerIds, ran, lastCall, besidesPrice>>

\* the query delivers the response it was loading: the filter panel mounts
receivePricedResponse ==
  /\ flights = <<>>
  /\ \E l \in PricedResponses :
       /\ flights' = l
       /\ localValue' = localValueOf(filters.priceRange, priceRange(l))
  /\ timeoutRef' = null
  /\ FlightListMount
  /\ UNCHANGED <<filters, sortOption, timers, timerIds, ran, lastCall,
                 lastAction, besidesPrice>>

\* what half a delay makes of the time since a timer was set
older(elapsed) ==
  IF elapsed >= DEBOUNCE_DELAY THEN elapsed ELSE elapsed + DEBOUNCE_DELAY \div 2

\* half a delay passes
elapse ==
  /\ \/ \E t \in timers : t.elapsed < DEBOUNCE_DELAY
     \/ lastCall.id # 0 /\ lastCall.elapsed < DEBOUNCE_DELAY
  /\ timers' = {[t EXCEPT !.elapsed = older(t.elapsed)] : t \in timers}
  /\ lastCall' = IF lastCall.id = 0 THEN lastCall
                 ELSE [lastCall EXCEPT !.elapsed = older(lastCall.elapsed)]
  /\ UNCHANGED <<hookVars, listVars, localValue, timeoutRef, timerIds, ran,
                 lastAction, besidesPrice>>

PriceNext ==
  \/ handleSearch
  \/ receivePricedResponse
  \/ handleInputChange
  \/ handleSliderChange
  \/ handleSliderCommit
  \/ timerFires
  \/ handleReset
  \/ elapse

PriceSpec == Init /\ [][PriceNext]_vars

-----------------------------------------------------------------------------
(* The modal of the flight context, contexts/FlightContext.tsx *)

\* selectedFlight: FlightOffer | null
noFlight == [id |-> nullId]

\* the delay of closeModal's timer
clearDelay == 300

\* clearTimers holds, oldest first, the time since each pending timer of
\* closeModal was set
openModal ==
  /\ \E flight \in Offers :
       /\ selectedFlight' = flight
       /\ lastOpened' = flight
  /\ isModalOpen' = TRUE
  /\ UNCHANGED <<clearTimers, besidesModal>>

closeModal ==
  /\ Len(clearTimers) < MaxClearTimers
  /\ isModalOpen' = FALSE
  /\ clearTimers' = Append(clearTimers, 0)
  /\ UNCHANGED <<selectedFlight, lastOpened, besidesModal>>

\* Optionally clear selected flight after modal animation
clearTimerFires ==
  /\ clearTimers # <<>>
  /\ Head(clearTimers) >= clearDelay
  /\ selectedFlight' = noFlight
  /\ clearTimers' = Tail(clearTimers)
  /\ UNCHANGED <<isModalOpen, lastOpened, besidesModal>>

\* half a delay passes for the timers of closeModal
modalElapse ==
  /\ \E k \in 1..Len(clearTimers) : clearTimers[k] < clearDelay
  /\ clearTimers' = [k \in 1..Len(clearTimers) |->
                       IF clearTimers[k] >= clearDelay THEN clearTimers[k]
                       ELSE clearTimers[k] + clearDelay \div 2]
  /\ UNCHANGED <<isModalOpen, selectedFlight, lastOpened, besidesModal>>

ModalNext ==
  \/ openModal
  \/ closeModal
  \/ clearTimerFires
  \/ modalElapse

ModalSpec == Init /\ [][ModalNext]_vars

-----------------------------------------------------------------------------
(* The API client, api/amadeus.client.ts *)

\* Tokens are numbered in the order the auth endpoint issues them.  The
\* token cache is [accessToken, expired], expired once Date.now() has
\* reached expiresAt - 60000.
\* let tokenCache: TokenCache | null = null
noToken == [accessToken |-> null]

isTokenValid(cache) == cache # noToken /\ ~cache.expired

\* A request is [pc, retry, token, sends, status, refused, tokensAtSend]:
\* where it stands, its _retry flag, the token of its Authorization
\* header, how often it was sent, the status of its last response, the
\* token of the send that was answered 401, and the number of tokens
\* issued when it was last sent.
\*   pc = "idle"        not made yet
\*        "token"       the request interceptor awaits the auth endpoint
\*        "sent"        awaiting the API's response
\*        "retryToken"  the response interceptor awaits the auth endpoint
\*        "resolved", "rejected"
newRequest ==
  [pc |-> "idle", retry |-> FALSE, token |-> 0, sends |-> 0, status |-> 0,
   refused |-> 0, tokensAtSend |-> 0]

Requests == 1..MaxRequests

\* config.headers.Authorization = `Bearer ${token}` and the request goes out
send(req, token, issued) ==
  [req EXCEPT !.pc = "sent", !.token = token, !.sends = @ + 1,
              !.status = 0, !.tokensAtSend = issued]

\* the request interceptor: getAccessToken returns the cached token if it
\* is valid and posts to the auth endpoint if not
intercept(req, cache, issued) ==
  IF isTokenValid(cache) THEN send(req, cache.accessToken, issued)
  ELSE [req EXCEPT !.pc = "token"]

\* client.get / client.post
request(r) ==
  /\ requests[r].pc = "idle"
  /\ requests' = [requests EXCEPT ![r] = intercept(@, tokenCache, tokensIssued)]
  /\ UNCHANGED <<tokenCache, tokensIssued, besidesClient>>

\* the auth endpoint answers with a token: getAccessToken stores and
\* returns it.  In the request interceptor the request goes out with it;
\* in the response interceptor client(originalRequest) runs the request
\* interceptor again, on the cache as it is then.
tokenResponse(r) ==
  /\ requests[r].pc \in {"token", "retryToken"}
  /\ tokensIssued < MaxTokens
  /\ tokensIssued' = tokensIssued + 1
  /\ \E expired \in BOOLEAN :
       /\ tokenCache' = [accessToken |-> tokensIssued + 1, expired |-> expired]
       /\ requests' =
            [requests EXCEPT ![r] =
               IF @.pc = "token" THEN send(@, tokensIssued + 1, tokensIssued + 1)
               ELSE intercept(@, [accessToken |-> tokensIssued + 1,
                                  expired |-> expired], tokensIssued + 1)]
  /\ UNCHANGED besidesClient

\* the auth endpoint answers with an error or not at all: getAccessToken
\* throws 'Authentication failed' and the request is rejected
tokenFailure(r) ==
  /\ requests[r].pc \in {"token", "retryToken"}
  /\ requests' = [requests EXCEPT ![r].pc = "rejected"]
  /\ UNCHANGED <<tokenCache, tokensIssued, besidesClient>>

\* the condition of the response interceptor without the _retry flag
shouldRetry_everyTime(status, req) == status = 401

\* error.response?.status === 401 && !originalRequest._retry
shouldRetry(status, req) == status = 401 /\ ~req.retry

\* the API answers a request (200), or answers it with an error (401, or
\* 500 for every other error and for the timeout); the response
\* interceptor retries or rejects
respond(r) ==
  /\ requests[r].pc = "sent"
  /\ \E status \in {200, 401, 500} :
       IF status = 200
       THEN /\ requests' = [requests EXCEPT ![r].pc = "resolved",
                                            ![r].status = status]
            /\ UNCHANGED tokenCache
       ELSE IF shouldRetry(status, requests[r])
       THEN /\ requests' = [requests EXCEPT ![r].pc = "retryToken",
                                            ![r].status = status,
                                            ![r].retry = TRUE,
                                            ![r].refused = requests[r].token]
            /\ tokenCache' = noToken
       ELSE /\ requests' = [requests EXCEPT ![r].pc = "rejected",
                                            ![r].status = status]
            /\ UNCHANGED tokenCache
  /\ UNCHANGED <<tokensIssued, besidesClient>>

\* time reaches expiresAt - 60000 of the cached token
tokenExpires ==
  /\ isTokenValid(tokenCache)
  /\ tokenCache' = [tokenCache EXCEPT !.expired = TRUE]
  /\ UNCHANGED <<tokensIssued, requests, besidesClient>>

\* an answer of the network to request r
answer(r) == tokenResponse(r) \/ tokenFailure(r) \/ respond(r)

ClientNext ==
  \/ \E r \in Requests : request(r)
  \/ \E r \in Requests : tokenResponse(r)
  \/ \E r \in Requests : tokenFailure(r)
  \/ \E r \in Requests : respond(r)
  \/ tokenExpires

ClientSpec == Init /\ [][ClientNext]_vars

\* every request the client has out on the network is answered in the end,
\* by a response, an error or the timeout
ClientFairSpec ==
  Init /\ [][ClientNext]_vars /\ \A r \in Requests : WF_vars(answer(r))

-----------------------------------------------------------------------------
(* Properties of the filter steps *)

Ids(s) == {s[i].id : i \in 1..Len(s)}

\* the stop count of an offer: per itinerary the segments' own stops plus
\* one connection between consecutive segments, summed over all itineraries
StopCountOf(o) ==
  SeqSum([i \in 1..Len(o.itineraries) |->
            SeqSum([k \in 1..Len(o.itineraries[i].segments) |->
                      o.itineraries[i].segments[k].numberOfStops])
            + Len(o.itineraries[i].segments) - 1])

InBucket(n, b) ==
  \/ b = "non-stop" /\ n = 0
  \/ b = "1-stop" /\ n = 1
  \/ b = "2+-stops" /\ n >= 2

InSelectedBucket(o) == \E b \in filters.stops : InBucket(StopCountOf(o), b)

OnlyStopsActive ==
  /\ filters.priceRange = defaultFilters.priceRange
  /\ filters.airlines = {}
  /\ filters.duration = null

\* C1: with a non-empty stop selection an offer is kept iff its stop count,
\* summed over all its itineraries, falls in a selected bucket: every
\* visible offer does, and when no other filter is active every such offer
\* of the list is visible
C1_StopBucketsOverAllItineraries ==
  LET v == visible
  IN filters.stops # {} =>
       /\ \A i \in 1..Len(v) : InSelectedBucket(v[i])
       /\ OnlyStopsActive =>
            Ids(v) = {flights[i].id : i \in {j \in 1..Len(flights) :
                                               InSelectedBucket(flights[j])}}

\* a round trip whose two itineraries sum to 2 stops is hidden by the
\* selection {non-stop, 1-stop} while the non-stop and 1-stop offers show
C1_Witness ==
  /\ filters.stops = {"non-stop", "1-stop"}
  /\ OnlyStopsActive
  /\ Ids(flights) = {"A", "B", "D"}
  /\ Ids(visible) = {"A", "B"}

\* C2: with no stop bucket and no airline selected, the default price range
\* and no duration ceiling, every offer of the list is visible; an empty
\* stop selection shows what selecting every bucket shows, and an empty
\* airline selection what selecting every airline shows
C2_EmptySelectionFiltersNothing ==
  LET v == visible
  IN /\ (filters.stops = {} /\ OnlyStopsActive) =>
          Ids(v) = Ids(flights) /\ Len(v) = Len(flights)
     /\ filters.stops = {} =>
          Ids(v) =
            Ids(filteredFlights(flights,
                                [filters EXCEPT !.stops = StopFilter],
                                sortOption))
     /\ filters.airlines = {} =>
          Ids(v) =
            Ids(filteredFlights(flights,
                                [filters EXCEPT !.airlines = AirlineCodes],
                                sortOption))

C2_Witness ==
  /\ filters.stops = {} /\ OnlyStopsActive
  /\ Len(flights) = MaxFlights
  /\ Len(visible) = MaxFlights
  /\ sortOption = "duration-asc"

\* the duration ceilings (minutes) a filter specification may carry
DurationCeilings == {0, 120, 330}

\* the filter specifications that have one more active predicate than f
OneMorePredicate(f) ==
  (IF f.stops = {}
   THEN {[f EXCEPT !.stops = s] : s \in (SUBSET StopFilter) \ {{}}} ELSE {})
  \cup
  (IF f.priceRange = defaultFilters.priceRange
   THEN {[f EXCEPT !.priceRange = [min |-> lo, max |-> hi]] :
           lo \in RangeMins, hi \in RangeMaxs} \ {f}
   ELSE {})
  \cup
  (IF f.airlines = {}
   THEN {[f EXCEPT !.airlines = a] : a \in (SUBSET AirlineCodes) \ {{}}}
   ELSE {})
  \cup
  (IF f.duration = null
   THEN {[f EXCEPT !.duration = d] : d \in DurationCeilings} ELSE {})

\* C3: activating one more stop, price, airline or duration predicate never
\* adds an offer to the visible list
C3_FilterMonotonicity ==
  LET v == visible
  IN \A f2 \in OneMorePredicate(filters) :
       LET more == filteredFlights(flights, f2, sortOption)
       IN Ids(more) \subseteq Ids(v) /\ Len(more) <= Len(v)

\* a stop selection is active and a duration ceiling on top of it removes
\* one of the two visible offers
C3_Witness ==
  /\ filters.stops = {"non-stop", "1-stop"}
  /\ Ids(visible) = {"A", "B"}
  /\ Ids(filteredFlights(flights, [filters EXCEPT !.duration = 120],
                         sortOption)) = {"A"}

\* the bounds of the claim: the user's bound, or the floor / ceiling of the
\* smallest / largest price of the whole list where the user set none
ClaimedLo ==
  IF filters.priceRange.min # 0 THEN filters.priceRange.min
  ELSE MathFloor(Min({getFlightPrice(flights[i]) : i \in 1..Len(flights)}))
ClaimedHi ==
  IF filters.priceRange.max # Infinity THEN filters.priceRange.max
  ELSE MathCeil(Max({getFlightPrice(flights[i]) : i \in 1..Len(flights)}))

InRange(lo, o, hi) == lo <= getFlightPrice(o) /\ getFlightPrice(o) <= hi

OnlyPriceActive ==
  filters.stops = {} /\ filters.airlines = {} /\ filters.duration = null

\* C4: an offer is kept iff lo <= price <= hi, bounds inclusive, an unset
\* bound taken from the observed range of the whole list: every visible
\* offer is in the range, and when no other filter is active every offer in
\* the range is visible
C4_PriceRangeInclusiveGlobalBounds ==
  LET v == visible
      lo == ClaimedLo
      hi == ClaimedHi
  IN Len(flights) > 0 =>
       /\ \A i \in 1..Len(v) : InRange(lo, v[i], hi)
       /\ OnlyPriceActive =>
            Ids(v) = {flights[i].id : i \in {j \in 1..Len(flights) :
                                               InRange(lo, flights[j], hi)}}

\* only the minimum is set, an offer priced exactly at it is kept and a
\* cheaper one removed
C4_Witness ==
  /\ filters.priceRange = [min |-> 30000, max |-> Infinity]
  /\ OnlyPriceActive
  /\ Ids(flights) = {"A", "B", "E"}
  /\ Ids(visible) = {"A", "B"}

\* C5: the price range the engine filters with is never inverted: when the
\* price step is applied its lower bound is at most its upper bound, so an
\* inverted range never empties the visible list
C5_InvertedRangeIsClamped ==
  LET gpr == globalPriceRange(flights)
  IN (/\ Len(flights) > 0
      /\ filters.priceRange.min > 0 \/ filters.priceRange.max < Infinity) =>
       minPrice(filters, gpr) <= maxPrice(filters, gpr)

NoItinerary(o) == o.itineraries = <<>>

\* C6 as stated: no offer without itineraries is in the visible list
C6_NoItineraryNeverVisible ==
  LET v == visible
  IN \A i \in 1..Len(v) : ~NoItinerary(v[i])

\* C6 as amended: an offer without itineraries is not excluded; it counts
\* as a non-stop offer of duration 0 and is visible iff it passes the
\* active stop, price, airline and duration predicates
C6_NoItineraryKeptAsNonStop ==
  LET shown == Ids(visible)
  IN \A i \in 1..Len(flights) :
       NoItinerary(flights[i]) =>
         (flights[i].id \in shown <=>
            /\ filters.stops = {} \/ "non-stop" \in filters.stops
            /\ filters.priceRange = defaultFilters.priceRange
               \/ InRange(ClaimedLo, flights[i], ClaimedHi)
            /\ filters.airlines = {}
               \/ Range(flights[i].validatingAirlineCodes)
                    \cap filters.airlines # {}
            /\ filters.duration = null \/ 0 <= filters.duration)

\* the offer without itineraries is the only one shown as non-stop
C6_Witness ==
  /\ filters.stops = {"non-stop"}
  /\ Ids(flights) = {"B", "D", "E"}
  /\ Ids(visible) = {"E"}

\* the sort keys of the claim; an offer without a first segment has no
\* departure key
HasKey(so, o) ==
  so = "departure-asc" => ~NoItinerary(o) /\ o.itineraries[1].segments # <<>>
KeyOf(so, o) ==
  IF so = "price-asc" THEN getFlightPrice(o)
  ELSE IF so = "price-desc" THEN 0 - getFlightPrice(o)
  ELSE IF so = "duration-asc" THEN getFlightDuration(o)
  ELSE getDepartureTime(o)

PositionIn(s, o) == CHOOSE i \in 1..Len(s) : s[i].id = o.id

\* C7: the visible list is ordered by the selected key, and offers with
\* equal keys are in their order of the input list
C7_StableSortByKey ==
  LET v == visible
  IN \A i, j \in 1..Len(v) :
       (i < j /\ HasKey(sortOption, v[i]) /\ HasKey(sortOption, v[j]))
       => /\ KeyOf(sortOption, v[i]) <= KeyOf(sortOption, v[j])
          /\ KeyOf(sortOption, v[i]) = KeyOf(sortOption, v[j])
             => PositionIn(flights, v[i]) < PositionIn(flights, v[j])

\* C8: the visible list, given back to the engine as the offer list with
\* the same filters and sort option, comes out unchanged
C8_PipelineIdempotent ==
  LET v == visible
  IN filteredFlights(v, filters, sortOption) = v

\* an offer was filtered out, the global price range of the smaller list
\* differs from that of the full list, and two visible offers tie on the
\* sort key
C8_Witness ==
  LET v == visible
  IN /\ Len(v) >= 2 /\ Len(v) < Len(flights)
     /\ filters.priceRange.min > 0 /\ filters.priceRange.max = Infinity
     /\ globalPriceRange(v) # globalPriceRange(flights)
     /\ \E i \in 1..Len(v) - 1 :
          KeyOf(sortOption, v[i]) = KeyOf(sortOption, v[i + 1])

PricesOf(v) == [i \in 1..Len(v) |-> getFlightPrice(v[i])]

BucketCounts(g) == [b \in 1..Len(g) |-> g[b].price]
MaxPriced(v) ==
  LET prices == PricesOf(v)
  IN {i \in 1..Len(v) : \A j \in 1..Len(v) : prices[i] >= prices[j]}

\* the histogram g counts every offer of the visible list v once, and is
\* empty when v is
HistogramConservation(v, g) ==
  /\ Len(v) = 0 => g = <<>>
  /\ Len(v) > 0 =>
       /\ Len(g) >= 1 /\ Len(g) <= 10
       /\ SeqSum(BucketCounts(g)) = Len(v)

\* C10 as stated: conservation, and the maximum-priced offers are counted in
\* the last bucket, also when all visible prices are equal
C10_ConservationMaxInLastBucket ==
  LET v == visible
      g == priceGraphData(v, priceStats(v))
  IN /\ HistogramConservation(v, g)
     /\ Len(v) > 0 => g[Len(g)].price >= Cardinality(MaxPriced(v))

\* C10 as amended: conservation; the maximum-priced offers are counted in
\* the last bucket when the visible prices differ, and when all visible
\* prices are equal (bucket width 1) every offer is counted in the first
\* bucket
C10_ConservationMaxInLastUnlessEqual ==
  LET v == visible
      g == priceGraphData(v, priceStats(v))
      allEqual == Cardinality(Range(PricesOf(v))) = 1
  IN /\ HistogramConservation(v, g)
     /\ (Len(v) > 0 /\ ~allEqual) =>
          g[Len(g)].price >= Cardinality(MaxPriced(v))
     /\ (Len(v) > 0 /\ allEqual) => g[1].price = Len(v)

\* eleven visible offers of different prices in ten buckets, the two most
\* expensive in the last bucket
C10_Witness ==
  LET v == visible
      g == graph
  IN /\ Len(v) = 11
     /\ Len(g) = 10
     /\ Cardinality(Range(PricesOf(v))) = 11
     /\ g[10].price = 2

-----------------------------------------------------------------------------
(* Properties of the airline options and of hasActiveFilters *)

\* the position of the first offer of the list that bears the code
FirstBearer(fl, code) ==
  Min({j \in 1..Len(fl) : code \in Range(fl[j].validatingAirlineCodes)})

\* C11: the airline options are a function of the full offer list only,
\* whatever the filters and the sort option are: one entry per distinct
\* validating-airline code of the full list, its count the number of offers
\* of the full list bearing the code, in non-increasing order of count and,
\* among equal counts, in the order the codes first appear in the full list
C11_AirlineOptionsOfFullList ==
  LET opts == airlineOptions(flights, dictionaries)
      n == Len(opts)
  IN /\ {opts[i].code : i \in 1..n} =
          UNION {Range(flights[j].validatingAirlineCodes) : j \in 1..Len(flights)}
     /\ \A i, j \in 1..n : i # j => opts[i].code # opts[j].code
     /\ \A i \in 1..n :
          opts[i].count =
            Cardinality({j \in 1..Len(flights) :
                           opts[i].code \in Range(flights[j].validatingAirlineCodes)})
     /\ \A i, j \in 1..n : i < j =>
          \/ opts[i].count > opts[j].count
          \/ /\ opts[i].count = opts[j].count
             /\ FirstBearer(flights, opts[i].code) <= FirstBearer(flights, opts[j].code)

\* the airline filter hides the two BA offers of [A, B, D] and the options
\* still list BA with count 2 before AA with count 1
C11_Witness ==
  /\ Len(flights) = 3 /\ flights[1].id = "A" /\ Ids(flights) = {"A", "B", "D"}
  /\ filters.airlines = {"AA"}
  /\ Ids(visible) = {"A"}
  /\ LET opts == airlineOptions(flights, dictionaries)
     IN /\ Len(opts) = 2
        /\ opts[1].code = "BA" /\ opts[1].count = 2
        /\ opts[2].code = "AA" /\ opts[2].count = 1

\* the price range in effect: an unset bound is the global bound
RangeInEffect(f, gpr) == [min |-> minPrice(f, gpr), max |-> maxPrice(f, gpr)]

\* the filter specification of the state with any duration ceiling or none
WithDuration == {[filters EXCEPT !.duration = d] : d \in DurationCeilings \cup {null}}

\* C12 as stated: hasActiveFilters is true iff the stop selection is
\* non-empty, or the airline selection is non-empty, or the price range
\* differs from the global observed range, or a duration ceiling is set
C12_ActiveIffRangeDiffers ==
  LET gpr == globalPriceRange(flights)
  IN \A f \in WithDuration :
       hasActiveFilters(f, gpr) <=>
         \/ f.stops # {}
         \/ f.airlines # {}
         \/ RangeInEffect(f, gpr) # gpr
         \/ f.duration # null

\* C12, amended: hasActiveFilters is true iff the stop selection is
\* non-empty, or the airline selection is non-empty, or the price range
\* cuts into the global observed range (its minimum above the global
\* minimum or its maximum below the global maximum), or a duration ceiling
\* is set; a range that only reaches beyond the global range is not active
C12_ActiveIffRangeNarrower ==
  LET gpr == globalPriceRange(flights)
  IN \A f \in WithDuration :
       LET r == RangeInEffect(f, gpr)
       IN hasActiveFilters(f, gpr) <=>
            \/ f.stops # {}
            \/ f.airlines # {}
            \/ r.min > gpr.min
            \/ r.max < gpr.max
            \/ f.duration # null

\* the only offer costs 500 and the range starts at 300: the range differs
\* from the global range [500, 500] and nothing is reported active
C12_Witness ==
  /\ Ids(flights) = {"A"}
  /\ filters.stops = {} /\ filters.airlines = {} /\ filters.duration = null
  /\ filters.priceRange = [min |-> 30000, max |-> Infinity]
  /\ globalPriceRange(flights) = [min |-> 50000, max |-> 50000]
  /\ ~hasActiveFilters(filters, globalPriceRange(flights))

-----------------------------------------------------------------------------
(* Properties of the flight list *)

\* the stops of the first itinerary: its segments' own stops and one
\* connection between consecutive segments
FirstItineraryStops(o) ==
  IF NoItinerary(o) THEN 0
  ELSE SeqSum([k \in 1..Len(o.itineraries[1].segments) |->
                 o.itineraries[1].segments[k].numberOfStops])
       + Max({0, Len(o.itineraries[1].segments) - 1})

\* an offer passes every table filter that is set
PassesEverySetFilter(o, tf) ==
  /\ tf.search = <<>> \/ matchesSearch(o, tf, dictionaries.carriers)
  /\ tf.maxPrice = null \/ getFlightPrice(o) <= tf.maxPrice
  /\ tf.maxStops = null \/ FirstItineraryStops(o) <= tf.maxStops
  /\ tf.airlines = {} \/ Range(o.validatingAirlineCodes) \cap tf.airlines # {}

\* C13: an offer of the visible list is in the table-filtered list iff it
\* passes every table filter that is set; with the four filters unset the
\* table-filtered list is the visible list; the table-filtered list keeps
\* the relative order of the visible list
C13_TableFiltersConjunction ==
  LET v == visible
      l == tableFilteredFlights(v, tableFilters, dictionaries.carriers)
  IN /\ Ids(l) = {v[i].id : i \in {j \in 1..Len(v) :
                                       PassesEverySetFilter(v[j], tableFilters)}}
     /\ tableFilters = defaultTableFilters => l = v
     /\ \A i, j \in 1..Len(l) :
          i < j => PositionIn(v, l[i]) < PositionIn(v, l[j])

\* a search text and a price ceiling are both set on a large list: some
\* offers pass both, some fail the search only and some the ceiling only
C13_Witness ==
  LET v == visible
  IN /\ tableFilters.search = <<"b", "a">> /\ tableFilters.maxPrice = 30000
     /\ tableFilters.maxStops = null /\ tableFilters.airlines = {}
     /\ Len(v) >= 9
     /\ Len(listed) > 0
     /\ \E i \in 1..Len(v) :
          /\ ~matchesSearch(v[i], tableFilters, dictionaries.carriers)
          /\ getFlightPrice(v[i]) <= 30000
     /\ \E i \in 1..Len(v) :
          /\ matchesSearch(v[i], tableFilters, dictionaries.carriers)
          /\ getFlightPrice(v[i]) > 30000

\* the items p*s .. min((p+1)*s, n)-1 (0-based) of a list of n items
ItemsOfPage(l, p, s) ==
  [i \in 1..(Min({(p + 1) * s, Len(l)}) - p * s) |-> l[p * s + i]]

\* the pages 0..p of a list at page size s, one after the other
RECURSIVE PagesUpTo(_, _, _)
PagesUpTo(l, p, s) ==
  IF p < 0 THEN <<>>
  ELSE PagesUpTo(l, p - 1, s) \o paginatedFlights(l, p, s)

\* a list of 23 offers
TwentyThree == [k \in 1..23 |-> LargeOffer(k, "spread")]

\* the pages partition the list l at page size s
PagesPartition(l, s) ==
  LET count == pageCount(l, s)
  IN /\ \A p \in 0..(count - 1) :
          /\ paginatedFlights(l, p, s) = ItemsOfPage(l, p, s)
          /\ p < count - 1 => Len(paginatedFlights(l, p, s)) = s
          /\ Len(paginatedFlights(l, p, s)) > 0
     /\ PagesUpTo(l, count - 1, s) = l

\* C14, the pages: at every page size the pages 0..ceil(n/s)-1 of the
\* table-filtered list hold the items p*s .. min((p+1)*s, n)-1, every page
\* before the last has s items and the pages one after the other are the
\* whole list; 23 items at size 10 give 10 items on the first page and 3
\* on the third, at size 25 all 23 on the first
C14_PagesPartitionState ==
  LET l == listed
  IN /\ \A s \in PAGE_SIZE_OPTIONS : PagesPartition(l, s)
     /\ pageItems = paginatedFlights(l, page, rowsPerPage)
     /\ \A s \in PAGE_SIZE_OPTIONS : PagesPartition(TwentyThree, s)
     /\ Len(paginatedFlights(TwentyThree, 0, 10)) = 10
     /\ Len(paginatedFlights(TwentyThree, 2, 10)) = 3
     /\ paginatedFlights(TwentyThree, 0, 25) = TwentyThree

\* C14: the pages partition the table-filtered list, and a step that
\* changes the page size sets the current page to the first page
C14_PagesPartitionList ==
  /\ []C14_PagesPartitionState
  /\ [][rowsPerPage' # rowsPerPage => page' = 0]_vars

\* the third page of 11 offers at page size 5 shows the last offer alone
C14_Witness ==
  /\ Len(listed) = 11 /\ rowsPerPage = 5 /\ page = 2
  /\ Len(pageItems) = 1
  /\ pageItems[1] = listed[11]

\* C15: after every step that changes a table filter, changes the primary
\* filter state or replaces the offer list passed to the flight list, also
\* by a different list of the same length, the current page is the first
C15_AnyChangeResetsPage ==
  [][(\/ tableFilters' # tableFilters
      \/ filters' # filters
      \/ filteredFlights(flights', filters', sortOption') # visible)
       => page' = 0]_vars

\* the offers of the list with the lowest price
LowestPriced(l) ==
  {k \in 1..Len(l) :
     \A j \in 1..Len(l) : getFlightPrice(l[k]) <= getFlightPrice(l[j])}

\* the places <<page, row>> of the items of l that are flagged at page size
\* s, lowest being the id the component computed
FlaggedOnPages(l, s, lowest) ==
  {<<p, k>> \in (0..(pageCount(l, s) - 1)) \X (1..s) :
     /\ p * s + k <= Len(l)
     /\ isLowest(paginatedFlights(l, p, s)[k], lowest)}

\* C16: of a non-empty table-filtered list exactly one offer is flagged, the
\* first in list order of the offers with the lowest price, on whatever page
\* it is at whatever page size; of an empty list none
C16_OneLowestPriceFlag ==
  LET l == listed
      lowest == lowestPriceId(l)
      first == Min(LowestPriced(l))
  IN /\ l = <<>> => lowest = nullId /\ pageItems = <<>>
     /\ l # <<>> =>
          /\ {k \in 1..Len(l) : isLowest(l[k], lowest)} = {first}
          /\ \A s \in PAGE_SIZE_OPTIONS :
               FlaggedOnPages(l, s, lowest) =
                 {<<(first - 1) \div s, ((first - 1) % s) + 1>>}

\* sorted by descending price, the cheapest of 11 offers is the last: it is
\* flagged though it is alone on the third page and the first page is shown
C16_Witness ==
  LET l == listed
  IN /\ sortOption = "price-desc"
     /\ Len(l) = 11 /\ rowsPerPage = 5 /\ page = 0
     /\ lowestPriceId(l) = l[11].id
     /\ \A k \in 1..Len(pageItems) : ~isLowest(pageItems[k], lowestPriceId(l))

-----------------------------------------------------------------------------
(* Properties of the seat normalization *)

\* the raw seats of the seat map, deck after deck, and what they become
rawSeats == flatMapSeats(seatmap.decks)
processedSeats == processSeats(seatmap, selectedSeat.number)

\* the letter written in upper case
UpperOf(c) ==
  IF \E k \in 1..26 : LowerLetters[k] = c
  THEN UpperLetters[CHOOSE k \in 1..26 : LowerLetters[k] = c]
  ELSE c

\* 10 to the n
RECURSIVE PowerOfTen(_)
PowerOfTen(n) == IF n = 0 THEN 1 ELSE 10 * PowerOfTen(n - 1)

\* the number is d digits followed by letters
DigitsThenLetters(number, d) ==
  /\ d >= 1 /\ d < Len(number)
  /\ \A i \in 1..d : IsDigit(number[i])
  /\ \A i \in (d + 1)..Len(number) : IsLetter(number[i])

\* the integer the first d characters write in decimal
DecimalValue(number, d) ==
  SeqSum([i \in 1..d |-> DigitVal(number[i]) * PowerOfTen(d - i)])

\* the seat got the row and column its number writes, or the sentinel
ParsedAsWritten(number, p) ==
  IF \E d \in 1..Len(number) : DigitsThenLetters(number, d)
  THEN \A d \in 1..Len(number) :
         DigitsThenLetters(number, d) =>
           /\ p.row = DecimalValue(number, d)
           /\ p.column = [i \in 1..(Len(number) - d) |-> UpperOf(number[d + i])]
  ELSE p.row = 0 /\ p.column = <<>>

\* C17: every seat of the seat map is processed, whatever its number: a
\* number of digits followed by letters gives the digits as the row and the
\* letters in upper case as the column ("12A" gives row 12, column "A"),
\* every other number gives row 0 and the empty column
C17_SeatNumberParsingNeverFails ==
  LET raw == rawSeats
      processed == processedSeats
  IN /\ parseSeatNumber(<<"1", "2", "A">>) = [row |-> 12, column |-> <<"A">>]
     /\ Len(processed) = Len(raw)
     /\ \A k \in 1..Len(raw) :
          /\ ParsedAsWritten(raw[k].number, processed[k])
          /\ ParsedAsWritten(raw[k].number, parseSeatNumber(raw[k].number))

\* a seat whose number does not parse stands before one whose number is
\* written with a lower-case letter, and both are processed
C17_Witness ==
  /\ Len(rawSeats) >= 2
  /\ rawSeats[1].number = <<"b", "a", "d">>
  /\ processedSeats[1].row = 0 /\ processedSeats[1].column = <<>>
  /\ rawSeats[2].number = <<"7", "f">>
  /\ processedSeats[2].row = 7 /\ processedSeats[2].column = <<"F">>

\* the characteristic codes of a raw seat
CodesOf(seat) ==
  IF "characteristicsCodes" \in DOMAIN seat
  THEN {seat.characteristicsCodes[i] : i \in 1..Len(seat.characteristicsCodes)}
  ELSE {}

\* C18: of every processed seat isWindow iff it is coded W, isAisle iff it
\* is coded A, isMiddle iff it is coded M or neither W nor A; at least one
\* of the three holds, and a seat coded only A is an aisle seat and neither
\* a window nor a middle seat
C18_PositionFlagsFromCodes ==
  LET raw == rawSeats
      processed == processedSeats
  IN \A k \in 1..Len(raw) :
       LET codes == CodesOf(raw[k])
           p == processed[k]
       IN /\ p.isWindow <=> "W" \in codes
          /\ p.isAisle <=> "A" \in codes
          /\ p.isMiddle <=> ("M" \in codes \/ ("W" \notin codes /\ "A" \notin codes))
          /\ p.isWindow \/ p.isAisle \/ p.isMiddle
          /\ codes = {"A"} => p.isAisle /\ ~p.isWindow /\ ~p.isMiddle

\* two aisle seats side by side, 14C and 14D
C18_Witness ==
  /\ Len(rawSeats) = 2
  /\ rawSeats[1].number = <<"1", "4", "C">> /\ CodesOf(rawSeats[1]) = {"A"}
  /\ rawSeats[2].number = <<"1", "4", "D">> /\ CodesOf(rawSeats[2]) = {"A"}
  /\ \A k \in 1..2 :
       /\ processedSeats[k].isAisle
       /\ ~processedSeats[k].isWindow
       /\ ~processedSeats[k].isMiddle

\* the place of a cabin class in the fixed order
CabinRank(cabin) ==
  CASE cabin = "FIRST" -> 1
    [] cabin = "BUSINESS" -> 2
    [] cabin = "PREMIUM_ECONOMY" -> 3
    [] cabin = "ECONOMY" -> 4

\* C19: the sections come in the order FIRST, BUSINESS, PREMIUM_ECONOMY,
\* ECONOMY whatever the order of the seats and decks, every section has a
\* seat, no cabin class has two sections, the cabin classes of the sections
\* are those of the seats, and a seat map without seats has no section
C19_SectionsInFixedOrder ==
  LET raw == rawSeats
      sections == cabinSections
  IN /\ \A i \in 1..Len(sections) : \A j \in 1..Len(sections) :
          i < j => CabinRank(sections[i].cabin) < CabinRank(sections[j].cabin)
     /\ \A i \in 1..Len(sections) : Len(sections[i].seats) >= 1
     /\ {sections[i].cabin : i \in 1..Len(sections)}
          = {raw[k].cabin : k \in 1..Len(raw)}
     /\ raw = <<>> => sections = <<>>

\* an economy seat on the main deck before a business seat on the upper
\* deck: the business section comes first
C19_Witness ==
  /\ Len(seatmap.decks) = 2
  /\ Len(rawSeats) = 2
  /\ rawSeats[1].cabin = "ECONOMY"
  /\ rawSeats[2].cabin = "BUSINESS"
  /\ Len(cabinSections) = 2
  /\ cabinSections[1].cabin = "BUSINESS"
  /\ cabinSections[2].cabin = "ECONOMY"

\* how often x is in the sequence
Count(seq, x) == Cardinality({i \in 1..Len(seq) : seq[i] = x})

\* C20: every seat of every deck, also one whose number does not parse, is
\* in the section of its cabin class as often as it is in the seat map, and
\* in no other section; the seat counts of the sections sum to the number of
\* seats of the seat map
C20_NoSeatDropped ==
  LET raw == rawSeats
      processed == processedSeats
      sections == cabinSections
  IN /\ SeqSum([i \in 1..Len(sections) |-> Len(sections[i].seats)]) = Len(raw)
     /\ \A k \in 1..Len(processed) :
          \E i \in 1..Len(sections) :
            /\ sections[i].cabin = raw[k].cabin
            /\ Count(sections[i].seats, processed[k]) = Count(processed, processed[k])
            /\ \A j \in 1..Len(sections) :
                 j # i => Count(sections[j].seats, processed[k]) = 0

\* a seat on each of two decks, one of them with a number that does not
\* parse: it is in its section with the sentinel row and column
C20_Witness ==
  /\ Len(seatmap.decks) = 2
  /\ Len(deckSeats(seatmap.decks[1])) = 1
  /\ Len(deckSeats(seatmap.decks[2])) = 1
  /\ processedSeats[1].row # 0
  /\ processedSeats[2].row = 0 /\ processedSeats[2].column = <<>>
  /\ \E i \in 1..Len(cabinSections) :
       \E j \in 1..Len(cabinSections[i].seats) :
         /\ cabinSections[i].seats[j].row = 0
         /\ cabinSections[i].seats[j].column = <<>>
  /\ SeqSum([i \in 1..Len(cabinSections) |-> Len(cabinSections[i].seats)]) = 2

-----------------------------------------------------------------------------
(* Properties of the seat selection *)

\* the seats of a list of sections, section after section
RECURSIVE SeatsOf(_)
SeatsOf(sections) ==
  IF sections = <<>> THEN <<>>
  ELSE Head(sections).seats \o SeatsOf(Tail(sections))

\* C21: a processed seat is marked selected exactly when its number is the
\* selected seat number handed to the processing, character for character;
\* processed without a selected number, no seat is marked
C21_SelectedIffNumberEqual ==
  LET raw == rawSeats
      processed == processedSeats
      unselected == processSeats(seatmap, undefined)
      sectionSeats == SeatsOf(getCabinSections(seatmap))
  IN /\ \A k \in 1..Len(raw) :
          processed[k].isSelected <=>
            /\ Len(raw[k].number) = Len(selectedSeat.number)
            /\ \A i \in 1..Len(raw[k].number) :
                 raw[k].number[i] = selectedSeat.number[i]
     /\ \A k \in 1..Len(unselected) : ~unselected[k].isSelected
     /\ \A k \in 1..Len(sectionSeats) : ~sectionSeats[k].isSelected

\* 14C is selected and 14D beside it is not
C21_Witness ==
  /\ Len(rawSeats) = 2
  /\ rawSeats[1].number = <<"1", "4", "C">>
  /\ rawSeats[2].number = <<"1", "4", "D">>
  /\ selectedSeat.number = <<"1", "4", "C">>
  /\ processedSeats[1].isSelected
  /\ ~processedSeats[2].isSelected

\* C28: at most one seat of the normalized seat map is marked selected,
\* also when two decks have a seat of the same number
C28_AtMostOneSelected ==
  LET seats == SeatsOf(cabinSections)
  IN Cardinality({k \in 1..Len(seats) : seats[k].isSelected}) <= 1

-----------------------------------------------------------------------------
(* Properties of the hook's interface *)

\* how often the offer is in the list
Occurrences(l, offer) == Cardinality({i \in 1..Len(l) : l[i] = offer})

\* C24: while hasActiveFilters is false the visible list holds every offer
\* of the full list, each as often as the full list does: whenever an offer
\* is hidden, hasActiveFilters is true
C24_NothingHiddenUnflagged ==
  LET v == visible
  IN ~hasActiveFilters(filters, globalPriceRange(flights)) =>
       /\ Len(v) = Len(flights)
       /\ \A i \in 1..Len(flights) :
            Occurrences(v, flights[i]) = Occurrences(flights, flights[i])

\* a price range that is set and runs the price step, but lies on the
\* bounds of the prices: both offers are shown, in sorted order, and
\* nothing is reported active
C24_Witness ==
  /\ flights = <<OfferA, OfferB>>
  /\ filters.priceRange = [min |-> 30000, max |-> 50000]
  /\ ~hasActiveFilters(filters, globalPriceRange(flights))
  /\ visible = <<OfferB, OfferA>>

\* C29: after any sequence of setStopFilters, setPriceRange,
\* setAirlineFilters, setSortOption and resetFilters the duration ceiling is
\* null: the duration step removes no offer, and hasActiveFilters is true
\* only for a stop selection, an airline selection or the price range
C29_DurationNeverActive ==
  LET gpr == globalPriceRange(flights)
      beforeDuration ==
        filterByAirlines(
          filterByPriceRange(filterByStops(flights, filters), filters, gpr),
          filters)
  IN /\ filters.duration = null
     /\ filterByDuration(beforeDuration, filters) = beforeDuration
     /\ hasActiveFilters(filters, gpr) =>
          \/ filters.stops # {}
          \/ filters.airlines # {}
          \/ filters.priceRange.min > gpr.min
          \/ filters.priceRange.max < gpr.max

\* every setter has been used, a long flight is shown, and the ceiling is
\* still null
C29_Witness ==
  /\ filters.stops # {}
  /\ filters.airlines # {}
  /\ filters.priceRange # defaultFilters.priceRange
  /\ sortOption # "price-asc"
  /\ filters.duration = null
  /\ \E i \in 1..Len(visible) : getFlightDuration(visible[i]) > 300

-----------------------------------------------------------------------------
(* Properties of the displayed page *)

\* C25: whenever the table-filtered list is not empty, the current page
\* starts inside it, so that the page shown is not empty
C25_DisplayedPageExists ==
  LET l == listed
  IN Len(l) > 0 =>
       /\ page * rowsPerPage < Len(l)
       /\ paginatedFlights(l, page, rowsPerPage) # <<>>

-----------------------------------------------------------------------------
(* Properties of the debounced price fields *)

\* C23: the callback of useDebouncedCallback runs only when the delay has
\* passed since the most recent call of the debounced function, for the
\* timer of that call and with its arguments, and only while the component
\* is mounted; and at most one timer is pending at any time.
C23_DebouncedCallback ==
  /\ [](Cardinality(timers) <= 1)
  /\ [][ran' # ran =>
          /\ PriceRangeFilterMounted
          /\ lastCall.id = ran'
          /\ lastCall.elapsed >= DEBOUNCE_DELAY
          /\ filters'.priceRange = lastCall.args]_vars

\* the callback ran for the second call of the debounced function and
\* delivered its arguments to the hook
C23_Witness ==
  /\ PriceRangeFilterMounted
  /\ ran = 2
  /\ timers = {}
  /\ filters.priceRange = lastCall.args
  /\ hasActiveFilters(filters, globalPriceRange(flights))

\* C30: a typed price that is pending in the debounce timer takes effect
\* only if typing was the last user action on the price range, and after
\* a reset or a new search the price range leaves its default only by a
\* new input of the user.
C30_LastActionDeterminesRange ==
  [][/\ ran' # ran => lastAction = "type"
     /\ (/\ lastAction \in {"reset", "search"}
         /\ filters.priceRange = defaultFilters.priceRange
         /\ filters'.priceRange # defaultFilters.priceRange)
        => lastAction' = "commit"]_vars

-----------------------------------------------------------------------------
(* Properties of the modal *)

\* C26: whenever the modal is open, selectedFlight is a flight, the one
\* passed to the most recent openModal; no timer of an earlier closeModal
\* clears the flight of a modal that is open again.
C26_OpenModalShowsLastOpened ==
  isModalOpen => selectedFlight # noFlight /\ selectedFlight = lastOpened

-----------------------------------------------------------------------------
(* Properties of the API client *)

\* the requests that await the auth endpoint
AwaitingToken == {r \in Requests : requests[r].pc \in {"token", "retryToken"}}

C27_TokenSingleFlight ==
  /\ [](Cardinality(AwaitingToken) <= 1)
  /\ [][\A r \in Requests :
          (requests[r].pc = "sent" /\ requests'[r].pc = "retryToken") =>
            \/ tokenCache = noToken
            \/ tokenCache.accessToken <= requests[r].tokensAtSend]_vars

====
